---- MODULE Spec2Model ----
(***************************************************************************)
(* Model of the issue bot: loop prevention and mention detection           *)
(* (webhook/loop-prevention.ts), the webhook handlers (webhook/handler.ts),*)
(* the token cache and app authentication, and the issue poller.           *)
(*                                                                         *)
(* Spec         the LoopPrevention object driven through its public API    *)
(* EventSpec    the same, with more event ids than the tracked set holds   *)
(* HandlerSpec  concurrent webhook deliveries running the two handlers     *)
(* PolicySpec   deliveries one after the other, every policy, every reply  *)
(* CacheSpec    the installation token cache (github/token-cache.ts)       *)
(* AuthSpec     concurrent callers of GitHubAppAuth.getInstallationToken   *)
(* PollSpec     the IssuePoller with overlapping ticks (poller)            *)
(* TimerSpec    the IssuePoller started and stopped                        *)
(* CoreSpec     webhook handlers or the poller, one trigger source at work *)
(* LiveSpec     the same with every external call settling                 *)
(* DetectSpec   MentionDetector.detect applied to short texts              *)
(* RegistrySpec the /repos routes, the registry and the persisted list     *)
(***************************************************************************)
EXTENDS Integers, Sequences, FiniteSets, TLC

(***************************************************************************)
(* Bounds and configuration                                                *)
(***************************************************************************)

\* LoopPrevention constructor option (maxTracked, default 1000), scaled down
maxTracked == 2

\* LoopPrevention constructor option (cooldownMs, default 30000), scaled down
cooldownMs == 2

\* the clock runs one ms past the cooldown boundary of a response made at 0
MaxTime == cooldownMs + 1

\* one more event id / issue than the tables can hold, so eviction happens
EventIds == 1 .. (maxTracked + 1)

\* the delivery ids of the webhook deliveries handled
FewEventIds == {1, 2}

\* the one event id checked, marked and recorded where the response table is
\* what fills up (it is tracked or not; the record's id is never read back)
ResponseEventIds == {1}

IssueNumbers == 1 .. (maxTracked + 1)

RepoKey == "o/r"

\* `${repoKey}#${number}` : the pair stands for the formatted string
issueKeyOf(repoKey, number) == <<repoKey, number>>

IssueKeys == {issueKeyOf(RepoKey, n) : n \in IssueNumbers}

\* user names are sequences of characters
botUsername == <<"a", "i">>

BotSuffix == <<"[", "b", "o", "t", "]">>

\* the logins that deliveries carry: nobody (|| ''), a human, the bot under
\* both of its names, and some other GitHub App
Authors ==
    { <<>>, <<"a", "l">>, botUsername, botUsername \o BotSuffix,
      <<"c", "i">> \o BotSuffix }

\* the logins of the deliveries handled: the human and every kind of bot
HandlerAuthors == Authors \ {<<>>}

\* one human and one bot login, where the tables are what varies
CheckAuthors == { <<"a", "l">>, botUsername \o BotSuffix }

\* the two webhook deliveries whose handlers may interleave
Triggers == {1, 2}

\* a repository that is not registered with the handler
OtherRepoKey == "o/x"

\* issue and comment bodies: one that addresses the bot, one that only names it
MentionBody == <<"@", "a", "i", " ", "h", "i">>

PlainBody == <<"a", "i", " ", "h", "i">>

\* the labels an analysis may suggest
LabelSets == {<<>>, <<"bug">>}

\* what the classification prompt may answer: text that names labels or none,
\* and that holds a JSON object JSON.parse accepts, or does not
ClassificationReplies == [parses : BOOLEAN, suggestedLabels : LabelSets]

\* the replies that parse
WellFormedReplies == {reply \in ClassificationReplies : reply.parses}

\* the response texts an analysis may produce
Responses == {"ack", "see docs"}

\* the one response text where concurrent deliveries are what varies
FewResponses == {"ack"}

\* the registered repository's policy where concurrent deliveries are what
\* varies: both toggles on, both off, or the repository switched off
RepoConfigs ==
    { [enabled |-> TRUE, autoLabel |-> TRUE, autoRespond |-> TRUE],
      [enabled |-> TRUE, autoLabel |-> FALSE, autoRespond |-> FALSE],
      [enabled |-> FALSE, autoLabel |-> TRUE, autoRespond |-> TRUE] }

\* the registered repository's policy: every combination of the two toggles,
\* and the repository switched off
AllRepoConfigs ==
    { [enabled |-> TRUE, autoLabel |-> l, autoRespond |-> r] : l, r \in BOOLEAN }
    \cup { [enabled |-> FALSE, autoLabel |-> TRUE, autoRespond |-> TRUE] }

\* a delivery as handle() sees it: signature, event name, delivery id, payload
Delivery(sig, kind, id, repo, inst, number, author, body) ==
    [signatureOk |-> sig, name |-> kind, id |-> id, repo |-> repo,
     installationId |-> inst, number |-> number, author |-> author, body |-> body]

EventNames == {"issues.opened", "issue_comment.created"}

\* no delivery was taken in
NoDelivery == Delivery(TRUE, "", 0, "", 0, 0, <<>>, <<>>)

\* verified deliveries for the registered repository, and one delivery each
\* with a bad signature, for an unregistered repository, without installation
HandlerDeliveries ==
    { Delivery(TRUE, kind, id, RepoKey, 1, number, author, body) :
        kind \in EventNames, id \in FewEventIds, number \in {1, 2},
        author \in HandlerAuthors, body \in {MentionBody, PlainBody} }
    \cup { Delivery(FALSE, kind, 1, RepoKey, 1, 1, <<"a", "l">>, MentionBody) :
                kind \in EventNames }
    \cup { Delivery(TRUE, kind, 1, OtherRepoKey, 1, 1, <<"a", "l">>, MentionBody) :
                kind \in EventNames }
    \cup { Delivery(TRUE, kind, 1, RepoKey, 0, 1, <<"a", "l">>, MentionBody) :
                kind \in EventNames }

\* the deliveries handled one after the other: a human and a bot author, one
\* issue
PolicyDeliveries ==
    { d \in HandlerDeliveries : d.author \in CheckAuthors /\ d.number = 1 }

\* TokenCache constructor argument (refreshMarginMs, default 5 minutes),
\* scaled down
refreshMarginMs == 2

\* the installations whose tokens are cached
InstallationIds == {1, 2}

\* installation tokens are opaque strings
Tokens == {"tok1", "tok2"}

\* expiry instants from the past up to one past the margin of the last instant
MaxExpiry == MaxTime + refreshMarginMs + 1

\* set() takes the expiry as a Date or as the string of a valid date
ExpiryInputs == [type : {"Date", "string"}, ms : 0 .. MaxExpiry]

(***************************************************************************)
(* State                                                                   *)
(***************************************************************************)
VARIABLES
    processedEvents,  \* Set<string> in insertion order: a duplicate-free sequence
    recentResponses,  \* Map<string, RecentResponse> in insertion order
    now,              \* Date.now()
    lastOp,           \* the LoopPrevention call made by the last step, with its result
    marked,           \* history: event ids passed to markProcessed since the last clear
    since,            \* history: per marked id, the other ids marked after its first marking
    respondedAt,      \* history: per issue key, the time of its last recordResponse (-1: none)
    repoConfigs,      \* WebhookHandler.repoConfigs: repository full name -> RepoConfig
    trig,             \* per webhook delivery: where its handler stands and what it has done
    received,         \* the delivery handle() took in during the last step, if any
    cache,            \* TokenCache.cache: installation id -> CachedToken, or no entry
    cacheOp,          \* the TokenCache call made by the last step, with its result
    stored,           \* history: per id, what the last set() since its last clear stored
    callers,          \* per caller of getInstallationToken: where it stands, its result
    issued,           \* history: the tokens the issuer returned, in order, with their ids
    privateKey,       \* GitHubAppAuth.privateKeyPromise: pending, loaded or failed
    processedIssues,  \* IssuePoller.processedIssues
    processingIssues, \* IssuePoller.processingIssues
    polls,            \* per poll tick: where its checkAllRepos stands
    runs,             \* per poll tick and issue: where the processIssue it started stands
    aiCommented,      \* the issues one of whose comments carries the AI-response marker
    input,            \* the text given to MentionDetector.detect
    mention,          \* what detect returned for it
    repos,            \* index.ts: the repos array loaded at startup and kept by the routes
    file,             \* the list repos.json holds
    requests,         \* per /repos request: where its route handler stands
    intervalId,       \* IssuePoller.intervalId: the timer start() made, or 0 for null
    timers,           \* the interval timers that are set and not cleared
    pollerCalls       \* history: the start() and stop() calls made, in order

lpVars == <<processedEvents, recentResponses, now, lastOp, marked, since, respondedAt>>

handlerVars == <<repoConfigs, trig, received>>

cacheVars == <<cache, cacheOp, stored>>

authVars == <<callers, issued, privateKey>>

pollVars == <<processedIssues, processingIssues, polls, runs, aiCommented>>

textVars == <<input, mention>>

registryVars == <<repos, file, requests>>

timerVars == <<intervalId, timers, pollerCalls>>

vars == <<processedEvents, recentResponses, now, lastOp, marked, since, respondedAt,
          repoConfigs, trig, received, cache, cacheOp, stored,
          callers, issued, privateKey,
          processedIssues, processingIssues, polls, runs, aiCommented,
          input, mention,
          repos, file, requests,
          intervalId, timers, pollerCalls>>

(***************************************************************************)
(* Helpers                                                                 *)
(***************************************************************************)
Range(s) == {s[i] : i \in 1 .. Len(s)}

\* String.prototype.endsWith
endsWith(s, suffix) ==
    /\ Len(s) >= Len(suffix)
    /\ SubSeq(s, Len(s) - Len(suffix) + 1, Len(s)) = suffix

\* the elements of s at the indices in keep, in their order in s
RECURSIVE KeepIdx(_, _, _)
KeepIdx(s, keep, i) ==
    IF i > Len(s) THEN <<>>
    ELSE (IF i \in keep THEN <<s[i]>> ELSE <<>>) \o KeepIdx(s, keep, i + 1)

(***************************************************************************)
(* MentionDetector                                                         *)
(***************************************************************************)
UpperChars ==
    <<"A", "B", "C", "D", "E", "F", "G", "H", "I", "J", "K", "L", "M",
      "N", "O", "P", "Q", "R", "S", "T", "U", "V", "W", "X", "Y", "Z">>

LowerChars ==
    <<"a", "b", "c", "d", "e", "f", "g", "h", "i", "j", "k", "l", "m",
      "n", "o", "p", "q", "r", "s", "t", "u", "v", "w", "x", "y", "z">>

Digits == {"0", "1", "2", "3", "4", "5", "6", "7", "8", "9"}

\* the i flag: letters compare without regard to case
foldCase(c) ==
    IF \E i \in 1 .. 26 : UpperChars[i] = c
    THEN LowerChars[CHOOSE i \in 1 .. 26 : UpperChars[i] = c]
    ELSE c

\* \w
isWordChar(c) == foldCase(c) \in Range(LowerChars) \cup Digits \cup {"_"}

\* \s, as far as the bodies here use white space
isSpace(c) == c \in {" ", "\n", "\t"}

\* the literal lit stands in text at position p (1-based)
matchesLiteral(text, p, lit) ==
    /\ p + Len(lit) - 1 <= Len(text)
    /\ \A i \in 1 .. Len(lit) : foldCase(text[p + i - 1]) = foldCase(lit[i])

\* \b before position p: exactly one neighbour is a word character
wordBoundary(text, p) ==
    LET before == p - 1 >= 1 /\ p - 1 <= Len(text) /\ isWordChar(text[p - 1])
        after == p >= 1 /\ p <= Len(text) /\ isWordChar(text[p])
    IN  before # after

\* (?:\s|$) at position p
spaceOrEnd(text, p) == p = Len(text) + 1 \/ (p <= Len(text) /\ isSpace(text[p]))

\* @name(?:\[bot\])?\b matches at position p
pattern1At(text, p) ==
    LET e == p + 1 + Len(botUsername) IN
    /\ matchesLiteral(text, p, <<"@">> \o botUsername)
    /\ \/ (matchesLiteral(text, e, BotSuffix) /\ wordBoundary(text, e + Len(BotSuffix)))
       \/ wordBoundary(text, e)

\* @name(?:\[bot\])?(?:\s|$) matches at position p
pattern2At(text, p) ==
    LET e == p + 1 + Len(botUsername) IN
    /\ matchesLiteral(text, p, <<"@">> \o botUsername)
    /\ \/ (matchesLiteral(text, e, BotSuffix) /\ spaceOrEnd(text, e + Len(BotSuffix)))
       \/ spaceOrEnd(text, e)

NoMention == [isMentioned |-> FALSE, mentionedAt |-> -1, mentionType |-> "none"]

\* MentionDetector.detect: the first pattern that matches anywhere wins
detect(text) ==
    LET at1 == {p \in 1 .. Len(text) : pattern1At(text, p)}
        at2 == {p \in 1 .. Len(text) : pattern2At(text, p)}
        first(ps) == (CHOOSE p \in ps : \A q \in ps : p <= q) - 1
    IN  IF text = <<>> THEN NoMention
        ELSE IF at1 # {}
             THEN [isMentioned |-> TRUE, mentionedAt |-> first(at1), mentionType |-> "direct"]
        ELSE IF at2 # {}
             THEN [isMentioned |-> TRUE, mentionedAt |-> first(at2), mentionType |-> "direct"]
        ELSE NoMention

(***************************************************************************)
(* LoopPrevention                                                          *)
(***************************************************************************)
\* isBotUser without the rule for any login ending in [bot]
isBotUserExact(username) ==
    \/ username = botUsername
    \/ username = botUsername \o BotSuffix

isBotUser(username) ==
    \/ username = botUsername
    \/ username = botUsername \o BotSuffix
    \/ endsWith(username, BotSuffix)

extractIssueNumber(issueKey) == issueKey[2]

\* this.recentResponses.get(issueKey): the set of matching entries (none or one)
getResponse(R, issueKey) == {R[i] : i \in {j \in 1 .. Len(R) : R[j].key = issueKey}}

\* check with the duplicate test moved ahead of the author test
checkDuplicateFirst(E, R, t, author, issueKey, eventId) ==
    IF eventId \in Range(E) THEN "duplicate_event"
    ELSE IF \/ author = botUsername
            \/ author = botUsername \o BotSuffix
            \/ endsWith(author, BotSuffix)
         THEN "bot_author"
    ELSE IF \E i \in 1 .. Len(R) : R[i].key = issueKey /\ t - R[i].timestamp < cooldownMs
         THEN "recent_response"
    ELSE "none"

\* the reason check returns; "none" stands for { shouldIgnore: false }
check(E, R, t, author, issueKey, eventId) ==
    IF isBotUser(author) THEN "bot_author"
    ELSE IF eventId \in Range(E) THEN "duplicate_event"
    ELSE IF \E recent \in getResponse(R, issueKey) : t - recent.timestamp < cooldownMs
         THEN "recent_response"
    ELSE "none"

\* an add that moves an id already present to the newest position
setAddMovesLast(E, eventId) ==
    Append(SelectSeq(E, LAMBDA x : x # eventId), eventId)

\* Set.add keeps the position of an element already present
setAdd(E, eventId) == IF eventId \in Range(E) THEN E ELSE Append(E, eventId)

\* slice(-(size - maxTracked)): the newest ids instead of the oldest
eventsToDeleteNewest(E) ==
    IF Len(E) > maxTracked THEN SubSeq(E, maxTracked + 1, Len(E)) ELSE <<>>

\* slice(0, size - maxTracked + 1): one id too many
eventsToDeleteOneMore(E) ==
    IF Len(E) > maxTracked THEN SubSeq(E, 1, Len(E) - maxTracked + 1) ELSE <<>>

\* Array.from(set).slice(0, size - maxTracked), when size > maxTracked
eventsToDelete(E) ==
    IF Len(E) > maxTracked THEN SubSeq(E, 1, Len(E) - maxTracked) ELSE <<>>

\* a markProcessed that tracks nothing
markProcessedForgets(E, eventId) == E

markProcessed(E, eventId) ==
    LET added == setAdd(E, eventId)
        toDelete == Range(eventsToDelete(added))
    IN  SelectSeq(added, LAMBDA x : x \notin toDelete)

\* a set that leaves an existing entry as it is
mapSetIfAbsent(R, rec) ==
    IF \E i \in 1 .. Len(R) : R[i].key = rec.key THEN R ELSE Append(R, rec)

\* Map.set overwrites the value in place and appends a new key
mapSet(R, rec) ==
    IF \E i \in 1 .. Len(R) : R[i].key = rec.key
    THEN [i \in 1 .. Len(R) |-> IF R[i].key = rec.key THEN rec ELSE R[i]]
    ELSE Append(R, rec)

\* position of entry i with the sort left out: the Map's insertion order
sortRankUnsorted(R, i) == i - 1

\* position of entry i after entries.sort((a, b) => a[1].timestamp - b[1].timestamp),
\* counted from 0; the sort is stable
sortRank(R, i) ==
    Cardinality({j \in 1 .. Len(R) :
        \/ R[j].timestamp < R[i].timestamp
        \/ (R[j].timestamp = R[i].timestamp /\ j < i)})

\* a slice that takes the entries from the other end of the sorted array
responsesToDeleteNewest(R) ==
    IF Len(R) > maxTracked
    THEN {i \in 1 .. Len(R) : sortRank(R, i) >= maxTracked}
    ELSE {}

\* indices of the entries in sorted.slice(0, length - maxTracked)
responsesToDelete(R) ==
    IF Len(R) > maxTracked
    THEN {i \in 1 .. Len(R) : sortRank(R, i) < Len(R) - maxTracked}
    ELSE {}

recordResponse(R, t, issueKey, eventId) ==
    LET rec == [key |-> issueKey, issueNumber |-> extractIssueNumber(issueKey),
                timestamp |-> t, eventId |-> eventId]
        added == mapSet(R, rec)
    IN  KeepIdx(added, (1 .. Len(added)) \ responsesToDelete(added), 1)

(***************************************************************************)
(* TokenCache                                                              *)
(***************************************************************************)
\* the Map holds no entry for the id
NoToken == [token |-> "", expiresAt |-> -1]

\* get() returns null
Absent == "null"

\* typeof expiresAt === 'string' ? new Date(expiresAt) : expiresAt, as ms
toExpiry(expiresAt) == expiresAt.ms

\* the expiry test with < in place of <=
expiringSoonStrict(entry, t) == entry.expiresAt < t + refreshMarginMs

\* cached.expiresAt <= new Date(Date.now() + this.refreshMarginMs)
expiringSoon(entry, t) == entry.expiresAt <= t + refreshMarginMs

\* TokenCache.get: the token returned and the cache afterwards
cacheGet(C, t, installationId) ==
    IF C[installationId] = NoToken THEN [token |-> Absent, cache |-> C]
    ELSE IF expiringSoon(C[installationId], t)
         THEN [token |-> Absent, cache |-> [C EXCEPT ![installationId] = NoToken]]
    ELSE [token |-> C[installationId].token, cache |-> C]

\* a set that keeps an entry the id already has
cacheSetIfAbsent(C, installationId, token, expiresAt) ==
    IF C[installationId] # NoToken THEN C
    ELSE [C EXCEPT ![installationId] =
            [token |-> token, expiresAt |-> expiresAt.ms]]

\* TokenCache.set
cacheSet(C, installationId, token, expiresAt) ==
    [C EXCEPT ![installationId] = [token |-> token, expiresAt |-> toExpiry(expiresAt)]]

\* a has with an expiry rule of its own: the entry is there and has not expired
\* yet, whatever the margin, and nothing is removed
cacheHasOwnRule(C, t, installationId) ==
    [present |-> C[installationId] # NoToken /\ t < C[installationId].expiresAt,
     cache |-> C]

\* TokenCache.has: this.get(installationId) !== null
cacheHas(C, t, installationId) ==
    LET got == cacheGet(C, t, installationId)
    IN  [present |-> got.token # Absent, cache |-> got.cache]

\* a clear that empties the Map
cacheClearEvery(C, installationId) == [k \in DOMAIN C |-> NoToken]

\* TokenCache.clear
cacheClear(C, installationId) == [C EXCEPT ![installationId] = NoToken]

\* TokenCache.clearAll
cacheClearAll(C) == [k \in DOMAIN C |-> NoToken]

\* no TokenCache call was made
NoCacheOp ==
    [op |-> "none", key |-> 0, token |-> "", present |-> FALSE, expiresAt |-> -1,
     prev |-> <<"none", 0>>]

\* the record of a call, with the call of the step before it
cacheCall(op, key, token, present, expiresAt) ==
    [op |-> op, key |-> key, token |-> token, present |-> present,
     expiresAt |-> expiresAt, prev |-> <<cacheOp.op, cacheOp.key>>]

(***************************************************************************)
(* GitHubAppAuth, IssuePoller and the text under detection, before any     *)
(* call                                                                    *)
(***************************************************************************)
\* the concurrent callers of getInstallationToken
Callers == {1, 2}

\* the issuer is asked for at most this many tokens before calls stop
MaxIssued == 3

\* a caller that has not called yet
NoCaller == [pc |-> "idle", installationId |-> 0, token |-> "", raced |-> FALSE]

authIdle ==
    /\ callers = [c \in Callers |-> NoCaller]
    /\ issued = <<>>
    /\ privateKey = "pending"

\* the poll ticks whose checkAllRepos may overlap
PollTicks == {1, 2}

\* the numbers of the open issues of the watched repository
PollIssues == {1, 2}

\* a tick that has not fired yet; listed and found are history: the issues
\* gh issue list answered with, and those hasAiComment answered true for
NoPoll == [pc |-> "idle", todo |-> <<>>, issue |-> 0, listed |-> <<>>, found |-> {}]

\* no processIssue was started by this tick for this issue
NoRun ==
    [pc |-> "none", body |-> <<>>, analysed |-> 0, labeled |-> 0, commented |-> 0,
     failure |-> ""]

pollIdle ==
    /\ processedIssues = {}
    /\ processingIssues = {}
    /\ polls = [p \in PollTicks |-> NoPoll]
    /\ runs = [p \in PollTicks, n \in PollIssues |-> NoRun]
    /\ aiCommented = {}

textIdle ==
    /\ input = <<>>
    /\ mention = NoMention

\* the /repos requests whose route handlers may overlap
Requests == {1, 2}

\* a route handler that is not running
NoRequest == [pc |-> "idle", snapshot |-> <<>>]

\* an entry of the repos array: a RepoConfig, its owner/name written as key
RepoEntry(key, config) == [key |-> key, config |-> config]

\* the lists repos.json may hold at startup: none, or the one repository
StoredLists ==
    {<<>>} \cup { <<RepoEntry(RepoKey, config)>> : config \in AllRepoConfigs }

\* new Map(repos.map((r) => [`${r.owner}/${r.name}`, r])): the last entry of
\* a key is the one the map keeps
registryOf(list) ==
    [key \in { list[i].key : i \in DOMAIN list } |->
        LET last == CHOOSE i \in DOMAIN list :
                        /\ list[i].key = key
                        /\ \A j \in DOMAIN list : list[j].key = key => j <= i
        IN  list[last].config]

\* startup: loadReposConfig() read the file, the handler was built from it
registryLoaded ==
    /\ file \in StoredLists
    /\ registryOf(file) = repoConfigs
    /\ repos = file
    /\ requests = [r \in Requests |-> NoRequest]

\* a handler built without index.ts: no array, no file, no route
registryIdle ==
    /\ repos = <<>>
    /\ file = <<>>
    /\ requests = [r \in Requests |-> NoRequest]

\* the poller was constructed and start() has not been called
timerIdle ==
    /\ intervalId = 0
    /\ timers = {}
    /\ pollerCalls = <<>>

(***************************************************************************)
(* History bookkeeping shared by every step that calls the object          *)
(***************************************************************************)
NoOp == [op |-> "none"]

\* no delivery has arrived for this handler run yet
Idle ==
    [pc |-> "idle", name |-> "", id |-> 0, issueKey |-> <<>>, author |-> <<>>,
     config |-> [enabled |-> FALSE, autoLabel |-> FALSE, autoRespond |-> FALSE],
     analysed |-> 0, malformed |-> FALSE, suggested |-> <<>>, response |-> "",
     labeled |-> 0, labels |-> <<>>,
     commented |-> 0, commentBody |-> "", commentAt |-> -1, commentOk |-> FALSE,
     failure |-> "", status |-> 0]

\* a handler run that ended before it started any work, answered with status
Ended(pc, status) == [Idle EXCEPT !.pc = pc, !.status = status]

markHistory(eventId) ==
    /\ marked' = marked \cup {eventId}
    /\ since' = [e \in EventIds |->
                    IF e \in marked /\ e # eventId THEN since[e] \cup {eventId}
                    ELSE since[e]]

recordHistory(issueKey) ==
    respondedAt' = [respondedAt EXCEPT ![issueKey] = now]

(***************************************************************************)
(* Spec: the LoopPrevention object under arbitrary calls                   *)
(***************************************************************************)
Init ==
    /\ processedEvents = <<>>
    /\ recentResponses = <<>>
    /\ now = 0
    /\ lastOp = NoOp
    /\ marked = {}
    /\ since = [e \in EventIds |-> {}]
    /\ respondedAt = [k \in IssueKeys |-> -1]
    /\ repoConfigs = [r \in {RepoKey} |-> [enabled |-> TRUE, autoLabel |-> TRUE,
                                            autoRespond |-> TRUE]]
    /\ trig = [t \in Triggers |-> Idle]
    /\ received = NoDelivery
    /\ cache = [k \in InstallationIds |-> NoToken]
    /\ cacheOp = NoCacheOp
    /\ stored = [k \in InstallationIds |-> NoToken]
    /\ authIdle
    /\ pollIdle
    /\ textIdle
    /\ registryIdle
    /\ timerIdle

\* lp.check(author, issueKey, eventId): reads only; the result is kept in lastOp
CheckOver(authors, keys, ids) ==
    \E author \in authors, issueKey \in keys, eventId \in ids :
        /\ lastOp' = [op |-> "check", author |-> author, issueKey |-> issueKey,
                      eventId |-> eventId,
                      reason |-> check(processedEvents, recentResponses, now,
                                       author, issueKey, eventId)]
        /\ UNCHANGED <<processedEvents, recentResponses, now, marked, since, respondedAt>>

\* lp.markProcessed(eventId)
MarkOver(ids) ==
    \E eventId \in ids :
        /\ processedEvents' = markProcessed(processedEvents, eventId)
        /\ lastOp' = [op |-> "markProcessed", eventId |-> eventId]
        /\ markHistory(eventId)
        /\ UNCHANGED <<recentResponses, now, respondedAt>>

\* lp.recordResponse(issueKey, eventId)
RecordOver(keys, ids) ==
    \E issueKey \in keys, eventId \in ids :
        /\ recentResponses' = recordResponse(recentResponses, now, issueKey, eventId)
        /\ lastOp' = [op |-> "recordResponse", issueKey |-> issueKey, eventId |-> eventId]
        /\ recordHistory(issueKey)
        /\ UNCHANGED <<processedEvents, now, marked, since>>

\* a clear that forgets to empty the tracked event ids
ClearResponsesOnly ==
    /\ recentResponses' = <<>>
    /\ lastOp' = [op |-> "clear"]
    /\ marked' = {}
    /\ since' = [e \in EventIds |-> {}]
    /\ respondedAt' = [k \in IssueKeys |-> -1]
    /\ UNCHANGED <<processedEvents, now>>

\* lp.clear()
Clear ==
    /\ processedEvents' = <<>>
    /\ recentResponses' = <<>>
    /\ lastOp' = [op |-> "clear"]
    /\ marked' = {}
    /\ since' = [e \in EventIds |-> {}]
    /\ respondedAt' = [k \in IssueKeys |-> -1]
    /\ UNCHANGED now

\* lp.clear(), nothing else happening
ClearAll == Clear /\ UNCHANGED <<handlerVars, cacheVars, authVars, pollVars, textVars, registryVars, timerVars>>

\* time passes
Tick ==
    /\ now < MaxTime
    /\ now' = now + 1
    /\ lastOp' = NoOp
    /\ received' = NoDelivery
    /\ cacheOp' = NoCacheOp
    /\ UNCHANGED <<processedEvents, recentResponses, marked, since, respondedAt>>
    /\ UNCHANGED <<repoConfigs, trig, cache, stored, authVars, pollVars, textVars, registryVars, timerVars>>

Check == CheckOver(CheckAuthors, IssueKeys, ResponseEventIds) /\ UNCHANGED <<handlerVars, cacheVars, authVars, pollVars, textVars, registryVars, timerVars>>

MarkProcessed == MarkOver(ResponseEventIds) /\ UNCHANGED <<handlerVars, cacheVars, authVars, pollVars, textVars, registryVars, timerVars>>

RecordResponse == RecordOver(IssueKeys, ResponseEventIds) /\ UNCHANGED <<handlerVars, cacheVars, authVars, pollVars, textVars, registryVars, timerVars>>

Next == Check \/ MarkProcessed \/ RecordResponse \/ ClearAll \/ Tick

Spec == Init /\ [][Next]_vars

(***************************************************************************)
(* EventSpec: the same object with more event ids than the tracked set     *)
(* holds, one issue and a stopped clock                                    *)
(***************************************************************************)
CheckEvent ==
    CheckOver(Authors, {issueKeyOf(RepoKey, 1)}, EventIds) /\ UNCHANGED <<handlerVars, cacheVars, authVars, pollVars, textVars, registryVars, timerVars>>

MarkEvent == MarkOver(EventIds) /\ UNCHANGED <<handlerVars, cacheVars, authVars, pollVars, textVars, registryVars, timerVars>>

EventNext == CheckEvent \/ MarkEvent \/ ClearAll

EventSpec == Init /\ [][EventNext]_vars

(***************************************************************************)
(* HandlerSpec: webhook deliveries handled concurrently.  A step runs one  *)
(* handler from where it was suspended to its next await.  The awaits of   *)
(* handle() before the event handler starts (request.text(), the signature *)
(* check) touch no shared state, so a delivery's first step runs from its  *)
(* arrival to the first await of its event handler.                        *)
(***************************************************************************)
HandlerInit ==
    /\ processedEvents = <<>>
    /\ recentResponses = <<>>
    /\ now = 0
    /\ lastOp = NoOp
    /\ marked = {}
    /\ since = [e \in EventIds |-> {}]
    /\ respondedAt = [k \in IssueKeys |-> -1]
    /\ repoConfigs \in [{RepoKey} -> RepoConfigs]
    /\ trig = [t \in Triggers |-> Idle]
    /\ received = NoDelivery
    /\ cache = [k \in InstallationIds |-> NoToken]
    /\ cacheOp = NoCacheOp
    /\ stored = [k \in InstallationIds |-> NoToken]
    /\ authIdle
    /\ pollIdle
    /\ textIdle
    /\ registryIdle
    /\ timerIdle

\* the first test of both handlers without the look at the enabled flag
repoEnabledIgnoresFlag(d) ==
    /\ d.repo \in DOMAIN repoConfigs
    /\ d.installationId # 0

\* this.repoConfigs.get(repoKey)?.enabled && installationId
repoEnabled(d) ==
    /\ d.repo \in DOMAIN repoConfigs
    /\ repoConfigs[d.repo].enabled
    /\ d.installationId # 0

\* the loop-prevention call both handlers start with
gateCheck(d) ==
    check(processedEvents, recentResponses, now, d.author,
          issueKeyOf(d.repo, d.number), d.id)

gateOp(d) ==
    [op |-> "check", author |-> d.author, issueKey |-> issueKeyOf(d.repo, d.number),
     eventId |-> d.id, reason |-> gateCheck(d), body |-> d.body, name |-> d.name]

\* the handler run of a delivery that passed both gates
Started(d, pc, analysed) ==
    [pc |-> pc, name |-> d.name, id |-> d.id, issueKey |-> issueKeyOf(d.repo, d.number),
     author |-> d.author, config |-> repoConfigs[d.repo], analysed |-> analysed,
     malformed |-> FALSE, suggested |-> <<>>, response |-> "",
     labeled |-> 0, labels |-> <<>>,
     commented |-> 0, commentBody |-> "", commentAt |-> -1, commentOk |-> FALSE,
     failure |-> "", status |-> 0]

lpUnchanged == UNCHANGED <<processedEvents, recentResponses, marked, since, respondedAt>>

\* a catch in handle() that answers OK whatever was thrown
VerifyFailsOverAnswersOk(t, deliveries) ==
    /\ trig[t].pc = "idle"
    /\ \E d \in deliveries :
        /\ ~d.signatureOk
        /\ received' = d
        /\ trig' = [trig EXCEPT ![t] = Ended("rejected", 200)]
    /\ lastOp' = NoOp
    /\ lpUnchanged
    /\ UNCHANGED <<now, repoConfigs, cacheVars, authVars, pollVars, textVars, registryVars, timerVars>>

\* handle(): verifyAndReceive rejects the signature, the answer is 401
VerifyFailsOver(t, deliveries) ==
    /\ trig[t].pc = "idle"
    /\ \E d \in deliveries :
        /\ ~d.signatureOk
        /\ received' = d
        /\ trig' = [trig EXCEPT ![t] = Ended("rejected", 401)]
    /\ lastOp' = NoOp
    /\ lpUnchanged
    /\ UNCHANGED <<now, repoConfigs, cacheVars, authVars, pollVars, textVars, registryVars, timerVars>>

\* an issues.opened handler that marks the event as processed as soon as check
\* lets it pass, before it looks for a mention
IssuesOpenedOverMarksFirst(t, deliveries) ==
    /\ trig[t].pc = "idle"
    /\ \E d \in deliveries :
        /\ d.signatureOk
        /\ d.name = "issues.opened"
        /\ received' = d
        /\ IF ~repoEnabled(d)
           THEN /\ trig' = [trig EXCEPT ![t] = Ended("skipped", 200)]
                /\ lastOp' = NoOp
                /\ lpUnchanged
           ELSE /\ lastOp' = gateOp(d)
                /\ IF gateCheck(d) # "none"
                   THEN /\ trig' = [trig EXCEPT ![t] = Ended("ignored", 200)]
                        /\ lpUnchanged
                   ELSE /\ processedEvents' = markProcessed(processedEvents, d.id)
                        /\ markHistory(d.id)
                        /\ trig' = [trig EXCEPT ![t] =
                                IF detect(d.body).isMentioned
                                THEN Started(d, "analyzing", 1)
                                ELSE Ended("ignored", 200)]
                        /\ UNCHANGED <<recentResponses, respondedAt>>
    /\ UNCHANGED <<now, repoConfigs, cacheVars, authVars, pollVars, textVars, registryVars, timerVars>>

\* the issues.opened handler up to the await of analyzeIssue in processIssue
IssuesOpenedOver(t, deliveries) ==
    /\ trig[t].pc = "idle"
    /\ \E d \in deliveries :
        /\ d.signatureOk
        /\ d.name = "issues.opened"
        /\ received' = d
        /\ IF ~repoEnabled(d)
           THEN /\ trig' = [trig EXCEPT ![t] = Ended("skipped", 200)]
                /\ lastOp' = NoOp
                /\ lpUnchanged
           ELSE /\ lastOp' = gateOp(d)
                /\ IF gateCheck(d) # "none" \/ ~detect(d.body).isMentioned
                   THEN /\ trig' = [trig EXCEPT ![t] = Ended("ignored", 200)]
                        /\ lpUnchanged
                   ELSE /\ processedEvents' = markProcessed(processedEvents, d.id)
                        /\ markHistory(d.id)
                        /\ trig' = [trig EXCEPT ![t] = Started(d, "analyzing", 1)]
                        /\ UNCHANGED <<recentResponses, respondedAt>>
    /\ UNCHANGED <<now, repoConfigs, cacheVars, authVars, pollVars, textVars, registryVars, timerVars>>

\* the issue_comment.created handler up to the await of collectConversationContext
IssueCommentCreatedOver(t, deliveries) ==
    /\ trig[t].pc = "idle"
    /\ \E d \in deliveries :
        /\ d.signatureOk
        /\ d.name = "issue_comment.created"
        /\ received' = d
        /\ IF ~repoEnabled(d)
           THEN /\ trig' = [trig EXCEPT ![t] = Ended("skipped", 200)]
                /\ lastOp' = NoOp
           ELSE /\ lastOp' = gateOp(d)
                /\ IF gateCheck(d) # "none" \/ ~detect(d.body).isMentioned
                   THEN trig' = [trig EXCEPT ![t] = Ended("ignored", 200)]
                   ELSE trig' = [trig EXCEPT ![t] = Started(d, "fetching", 0)]
    /\ lpUnchanged
    /\ UNCHANGED <<now, repoConfigs, cacheVars, authVars, pollVars, textVars, registryVars, timerVars>>

VerifyFails(t) == VerifyFailsOver(t, HandlerDeliveries)

IssuesOpened(t) == IssuesOpenedOver(t, HandlerDeliveries)

IssueCommentCreated(t) == IssueCommentCreatedOver(t, HandlerDeliveries)

\* getIssueComments settles: processIssueWithConversation runs up to the await
\* of analyzeIssue, or the rejection leaves the handler and handle() answers 401
FetchCommentsDone(t) ==
    /\ trig[t].pc = "fetching"
    /\ \E ok \in BOOLEAN :
        IF ok
        THEN /\ processedEvents' = markProcessed(processedEvents, trig[t].id)
             /\ markHistory(trig[t].id)
             /\ trig' = [trig EXCEPT ![t].pc = "analyzing", ![t].analysed = 1]
        ELSE /\ trig' = [trig EXCEPT ![t].pc = "error", ![t].failure = "fetch",
                                     ![t].status = 401]
             /\ UNCHANGED <<processedEvents, marked, since>>
    /\ lastOp' = NoOp
    /\ received' = NoDelivery
    /\ UNCHANGED <<recentResponses, respondedAt, now, repoConfigs, cacheVars, authVars, pollVars, textVars, registryVars, timerVars>>

\* a parseClassification that picks the labels out of any reply
parseClassificationKeepsLabels(reply) == reply.suggestedLabels

\* ClaudeAgent.parseClassification: the labels of a reply that parses, the
\* defaults (no labels) of one that does not; it never throws
parseClassification(reply) ==
    IF reply.parses THEN reply.suggestedLabels ELSE <<>>

\* the label test with the check for an empty label list left out
shouldLabelIgnoresLabels(config, labels) == config.autoLabel

\* processIssue: config.autoLabel && analysis.labels.length > 0
shouldLabel(config, labels) == config.autoLabel /\ Len(labels) > 0

\* processIssue: if (config.autoRespond)
respondsToIssue(config) == config.autoRespond

\* a comment-mention handler that honours the toggle like processIssue does
respondsToMentionIfEnabled(config) == config.autoRespond

\* processIssueWithConversation: "always respond to mentions"
respondsToMention(config) == TRUE

\* the handler run with addLabels called now
labelsCalled(r, labels) ==
    [r EXCEPT !.pc = "labeling", !.labeled = @ + 1, !.labels = labels]

\* the handler run with createComment called now, with analysis.response
commentCalled(r) ==
    [r EXCEPT !.pc = "commenting", !.commented = @ + 1, !.commentBody = r.response,
              !.commentAt = now]

\* the handler returned normally; handle() answers 200
finished(r) == [r EXCEPT !.pc = "done", !.status = 200]

\* a catch that logs the analysis error and goes on to post the response
analysisFailedGoesOn(r) == commentCalled([r EXCEPT !.failure = "analysis"])

\* a catch that calls analyzeIssue again, up to three more times
analysisFailedRetries(r) ==
    IF r.analysed < 4 THEN [r EXCEPT !.analysed = @ + 1] ELSE
    [r EXCEPT !.pc = "failed", !.failure = "analysis", !.status = 200]

\* the catch of processIssue / processIssueWithConversation around analyzeIssue
analysisFailed(r) == [r EXCEPT !.pc = "failed", !.failure = "analysis", !.status = 200]

\* addLabels in a try of its own: the rejection is logged and the run goes on
labelsRejectedGoesOn(r) ==
    IF r.config.autoRespond
    THEN commentCalled([r EXCEPT !.failure = "addLabels"])
    ELSE [r EXCEPT !.pc = "done", !.failure = "addLabels", !.status = 200]

\* the same catch around addLabels: the rest of processIssue is left out
labelsRejected(r) == [r EXCEPT !.pc = "failed", !.failure = "addLabels", !.status = 200]

\* a comment-mention handler that labels like processIssue does
afterMentionAnalysisLabels(r, labels) ==
    IF shouldLabel(r.config, labels) THEN labelsCalled(r, labels)
    ELSE commentCalled(r)

\* processIssueWithConversation after analyzeIssue: the next call is
\* createComment, there is no call of addLabels
afterMentionAnalysis(r, labels) ==
    IF respondsToMention(r.config) THEN commentCalled(r) ELSE finished(r)

\* analyzeIssue settles: a rejection is caught and logged; otherwise the next
\* call is addLabels (new issue, autoLabel, labels) or createComment
AnalysisOver(t, replies, responses) ==
    /\ trig[t].pc = "analyzing"
    /\ \E ok \in BOOLEAN, reply \in replies, response \in responses :
        LET labels == parseClassification(reply)
            r == [trig[t] EXCEPT !.malformed = ~reply.parses, !.suggested = labels,
                                 !.response = response]
        IN  trig' = [trig EXCEPT ![t] =
                IF ~ok THEN analysisFailed(trig[t])
                ELSE IF r.name = "issue_comment.created"
                     THEN afterMentionAnalysis(r, labels)
                ELSE IF shouldLabel(r.config, labels) THEN labelsCalled(r, labels)
                ELSE IF respondsToIssue(r.config) THEN commentCalled(r)
                ELSE finished(r)]
    /\ lastOp' = NoOp
    /\ received' = NoDelivery
    /\ lpUnchanged
    /\ UNCHANGED <<now, repoConfigs, cacheVars, authVars, pollVars, textVars, registryVars, timerVars>>

\* analyzeIssue settles with a reply that parses
AnalysisDone(t) == AnalysisOver(t, WellFormedReplies, FewResponses)

\* addLabels settles (processIssue only)
AddLabelsDone(t) ==
    /\ trig[t].pc = "labeling"
    /\ \E ok \in BOOLEAN :
        LET r == trig[t] IN
        trig' = [trig EXCEPT ![t] =
            IF ~ok THEN labelsRejected(r)
            ELSE IF respondsToIssue(r.config) THEN commentCalled(r)
            ELSE finished(r)]
    /\ lastOp' = NoOp
    /\ received' = NoDelivery
    /\ lpUnchanged
    /\ UNCHANGED <<now, repoConfigs, cacheVars, authVars, pollVars, textVars, registryVars, timerVars>>

\* what follows a resolved createComment before the handler returns
afterCommentSkipsRecord(R, t, issueKey, eventId) == R

afterComment(R, t, issueKey, eventId) == recordResponse(R, t, issueKey, eventId)

\* createComment settles: on success the response is recorded at once
CreateCommentDone(t) ==
    /\ trig[t].pc = "commenting"
    /\ \E ok \in BOOLEAN :
        IF ok
        THEN /\ recentResponses' =
                    afterComment(recentResponses, now, trig[t].issueKey, trig[t].id)
             /\ recordHistory(trig[t].issueKey)
             /\ lastOp' = [op |-> "recordResponse", issueKey |-> trig[t].issueKey,
                           eventId |-> trig[t].id]
             /\ trig' = [trig EXCEPT ![t].pc = "done", ![t].commentOk = TRUE,
                                     ![t].status = 200]
        ELSE /\ trig' = [trig EXCEPT ![t].pc = "failed", ![t].failure = "createComment",
                                     ![t].status = 200]
             /\ lastOp' = NoOp
             /\ UNCHANGED <<recentResponses, respondedAt>>
    /\ received' = NoDelivery
    /\ UNCHANGED <<processedEvents, marked, since, now, repoConfigs, cacheVars, authVars, pollVars, textVars, registryVars, timerVars>>

HandlerNext ==
    \/ \E t \in Triggers :
        \/ VerifyFails(t)
        \/ IssuesOpened(t)
        \/ IssueCommentCreated(t)
        \/ FetchCommentsDone(t)
        \/ AnalysisDone(t)
        \/ AddLabelsDone(t)
        \/ CreateCommentDone(t)
    \/ Tick

HandlerSpec == HandlerInit /\ [][HandlerNext]_vars

(***************************************************************************)
(* PolicySpec: webhook deliveries handled one after the other, under every *)
(* repository policy and every kind of answer of the analysis engine.  A   *)
(* delivery is taken in only while no handler run is suspended; the clock  *)
(* stands still.                                                           *)
(***************************************************************************)
PolicyInit ==
    /\ processedEvents = <<>>
    /\ recentResponses = <<>>
    /\ now = 0
    /\ lastOp = NoOp
    /\ marked = {}
    /\ since = [e \in EventIds |-> {}]
    /\ respondedAt = [k \in IssueKeys |-> -1]
    /\ repoConfigs \in [{RepoKey} -> AllRepoConfigs]
    /\ trig = [t \in Triggers |-> Idle]
    /\ received = NoDelivery
    /\ cache = [k \in InstallationIds |-> NoToken]
    /\ cacheOp = NoCacheOp
    /\ stored = [k \in InstallationIds |-> NoToken]
    /\ authIdle
    /\ pollIdle
    /\ textIdle
    /\ registryIdle
    /\ timerIdle

\* the states in which a handler run has returned or thrown
TerminalPcs == {"rejected", "skipped", "ignored", "done", "failed", "error"}

NoneSuspended == \A t \in Triggers : trig[t].pc \in {"idle"} \cup TerminalPcs

\* a delivery arrives while no other is being handled
Arrives(t) ==
    /\ NoneSuspended
    /\ \/ VerifyFailsOver(t, PolicyDeliveries)
       \/ IssuesOpenedOver(t, PolicyDeliveries)
       \/ IssueCommentCreatedOver(t, PolicyDeliveries)

\* analyzeIssue settles, with any reply of the engine
AnalysisSettles(t) == AnalysisOver(t, ClassificationReplies, Responses)

\* WebhookHandler.addRepo: the registered repository gets another policy; a
\* handler run that has started keeps the policy it read
AddRepo ==
    /\ \E config \in AllRepoConfigs :
        repoConfigs' = [repoConfigs EXCEPT ![RepoKey] = config]
    /\ lastOp' = NoOp
    /\ received' = NoDelivery
    /\ lpUnchanged
    /\ UNCHANGED <<now, trig, cacheVars, authVars, pollVars, textVars, registryVars, timerVars>>

PolicyNext ==
    \/ \E t \in Triggers :
        \/ Arrives(t)
        \/ FetchCommentsDone(t)
        \/ AnalysisSettles(t)
        \/ AddLabelsDone(t)
        \/ CreateCommentDone(t)
    \/ AddRepo

PolicySpec == PolicyInit /\ [][PolicyNext]_vars

(***************************************************************************)
(* CacheSpec: the token cache under arbitrary calls, with the clock of     *)
(* Spec                                                                    *)
(***************************************************************************)
CacheGet ==
    /\ \E installationId \in InstallationIds :
        LET got == cacheGet(cache, now, installationId) IN
        /\ cache' = got.cache
        /\ cacheOp' = cacheCall("get", installationId, got.token, got.token # Absent, -1)
    /\ UNCHANGED <<stored, lpVars, handlerVars, authVars, pollVars, textVars, registryVars, timerVars>>

CacheSet ==
    /\ \E installationId \in InstallationIds, token \in Tokens, expiresAt \in ExpiryInputs :
        /\ cache' = cacheSet(cache, installationId, token, expiresAt)
        /\ cacheOp' = cacheCall("set", installationId, token, FALSE, toExpiry(expiresAt))
        /\ stored' = [stored EXCEPT ![installationId] =
                        [token |-> token, expiresAt |-> toExpiry(expiresAt)]]
    /\ UNCHANGED <<lpVars, handlerVars, authVars, pollVars, textVars, registryVars, timerVars>>

CacheHas ==
    /\ \E installationId \in InstallationIds :
        LET had == cacheHas(cache, now, installationId) IN
        /\ cache' = had.cache
        /\ cacheOp' = cacheCall("has", installationId, "", had.present, -1)
    /\ UNCHANGED <<stored, lpVars, handlerVars, authVars, pollVars, textVars, registryVars, timerVars>>

CacheClear ==
    /\ \E installationId \in InstallationIds :
        /\ cache' = cacheClear(cache, installationId)
        /\ cacheOp' = cacheCall("clear", installationId, "", FALSE, -1)
        /\ stored' = [stored EXCEPT ![installationId] = NoToken]
    /\ UNCHANGED <<lpVars, handlerVars, authVars, pollVars, textVars, registryVars, timerVars>>

CacheClearAll ==
    /\ cache' = cacheClearAll(cache)
    /\ cacheOp' = cacheCall("clearAll", 0, "", FALSE, -1)
    /\ stored' = [k \in InstallationIds |-> NoToken]
    /\ UNCHANGED <<lpVars, handlerVars, authVars, pollVars, textVars, registryVars, timerVars>>

CacheNext == CacheGet \/ CacheSet \/ CacheHas \/ CacheClear \/ CacheClearAll \/ Tick

CacheSpec == Init /\ [][CacheNext]_vars

(***************************************************************************)
(* AuthSpec: concurrent callers of GitHubAppAuth.getInstallationToken over *)
(* the one token cache.  A step runs one caller from where it was          *)
(* suspended to its next await.                                            *)
(***************************************************************************)
\* how long after its issue a token expires: past the refresh margin
TokenLifetimes == {refreshMarginMs + 1, refreshMarginMs + 2}

\* the n-th token the issuer hands out; no two are alike
issuerToken(n) == "ghs_" \o ToString(n)

\* a caller is between its cache miss and its return
InFlight(c) == callers[c].pc \in {"key", "issuer"}

\* tokenCache.get(installationId); a hit returns, a miss awaits the private key
GetInstallationToken(c) ==
    /\ ~InFlight(c)
    /\ Len(issued) < MaxIssued
    /\ \E installationId \in InstallationIds :
        LET cached == cacheGet(cache, now, installationId) IN
        /\ cache' = cached.cache
        /\ cacheOp' = cacheCall("get", installationId, cached.token,
                                cached.token # Absent, -1)
        /\ callers' = [callers EXCEPT ![c] =
                IF cached.token # Absent
                THEN [pc |-> "returned", installationId |-> installationId,
                      token |-> cached.token, raced |-> FALSE]
                ELSE [pc |-> "key", installationId |-> installationId, token |-> "",
                      raced |-> \E d \in Callers \ {c} :
                                    /\ InFlight(d)
                                    /\ callers[d].installationId = installationId]]
    /\ UNCHANGED <<stored, issued, privateKey, lpVars, handlerVars, pollVars, textVars, registryVars, timerVars>>

\* await this.privateKeyPromise: the one promise made in the constructor
\* resolves with the key or rejects, the same way for every caller
PrivateKeyDone(c) ==
    /\ callers[c].pc = "key"
    /\ \E outcome \in {"loaded", "failed"} :
        /\ privateKey \in {"pending", outcome}
        /\ privateKey' = outcome
        /\ callers' = [callers EXCEPT ![c].pc =
                            IF outcome = "loaded" THEN "issuer" ELSE "threw"]
    /\ cacheOp' = NoCacheOp
    /\ UNCHANGED <<cache, stored, issued, lpVars, handlerVars, pollVars, textVars, registryVars, timerVars>>

\* await auth({type: 'installation', installationId}) resolves: the token is
\* cached and returned
IssuerReturns(c) ==
    /\ callers[c].pc = "issuer"
    /\ \E lifetime \in TokenLifetimes :
        LET installationId == callers[c].installationId
            token == issuerToken(Len(issued) + 1)
            expiresAt == [type |-> "string", ms |-> now + lifetime]
        IN  /\ issued' = Append(issued, [installationId |-> installationId,
                                          token |-> token])
            /\ cache' = cacheSet(cache, installationId, token, expiresAt)
            /\ cacheOp' = cacheCall("set", installationId, token, FALSE,
                                    toExpiry(expiresAt))
            /\ stored' = [stored EXCEPT ![installationId] =
                            [token |-> token, expiresAt |-> toExpiry(expiresAt)]]
            /\ callers' = [callers EXCEPT ![c].pc = "returned", ![c].token = token]
    /\ UNCHANGED <<privateKey, lpVars, handlerVars, pollVars, textVars, registryVars, timerVars>>

\* await auth(...) rejects: the call throws and caches nothing
IssuerFails(c) ==
    /\ callers[c].pc = "issuer"
    /\ callers' = [callers EXCEPT ![c].pc = "threw"]
    /\ cacheOp' = NoCacheOp
    /\ UNCHANGED <<cache, stored, issued, privateKey, lpVars, handlerVars, pollVars,
                   textVars, registryVars, timerVars>>

AuthNext ==
    \/ \E c \in Callers :
        \/ GetInstallationToken(c)
        \/ PrivateKeyDone(c)
        \/ IssuerReturns(c)
        \/ IssuerFails(c)
    \/ Tick

AuthSpec == Init /\ [][AuthNext]_vars

(***************************************************************************)
(* PollSpec: the IssuePoller.  setInterval calls checkAllRepos without     *)
(* waiting for the call before it, so ticks overlap.  A step runs one      *)
(* checkRepo, or one processIssue with its then/finally callbacks, from    *)
(* where it was suspended to its next await.  One repository is watched.   *)
(***************************************************************************)
\* what gh issue list may answer: the open issues, newest first
IssueLists == {<<1>>, <<2, 1>>}

\* the body of an open issue: the first mentions the bot, the second does not
issueBody(n) == IF n = 1 THEN MentionBody ELSE PlainBody

\* which issues carry a comment with the AI-response marker from an earlier
\* run of the bot: none, or the second
MarkedIssues == {{}, {2}}

\* the policy of the watched repository
pollRepo == repoConfigs[RepoKey]

PollInit ==
    /\ processedEvents = <<>>
    /\ recentResponses = <<>>
    /\ now = 0
    /\ lastOp = NoOp
    /\ marked = {}
    /\ since = [e \in EventIds |-> {}]
    /\ respondedAt = [k \in IssueKeys |-> -1]
    /\ repoConfigs \in [{RepoKey} -> {c \in RepoConfigs : c.enabled}]
    /\ trig = [t \in Triggers |-> Idle]
    /\ received = NoDelivery
    /\ cache = [k \in InstallationIds |-> NoToken]
    /\ cacheOp = NoCacheOp
    /\ stored = [k \in InstallationIds |-> NoToken]
    /\ authIdle
    /\ processedIssues = {}
    /\ processingIssues = {}
    /\ polls = [p \in PollTicks |-> NoPoll]
    /\ runs = [p \in PollTicks, n \in PollIssues |-> NoRun]
    /\ aiCommented \in MarkedIssues
    /\ textIdle
    /\ registryIdle
    /\ timerIdle

\* what no step of the poller touches
pollFrame == UNCHANGED <<lpVars, repoConfigs, trig, received, cacheVars, authVars, textVars, registryVars, timerVars>>

\* a loop that passes over nothing
skipNone(issues, seen) == issues

\* the for loop of checkRepo from its head: the issues in processedIssues or
\* processingIssues are passed over (continue)
RECURSIVE skipSeen(_, _)
skipSeen(issues, seen) ==
    IF issues = <<>> THEN <<>>
    ELSE IF Head(issues) \in seen THEN skipSeen(Tail(issues), seen)
    ELSE issues

\* checkRepo runs on from the head of the loop over issues to its next await
\* (hasAiComment of the first issue not passed over) or to its end
loopOn(p, issues, seen, listed, found) ==
    LET rest == skipSeen(issues, seen) IN
    polls' = [polls EXCEPT ![p] =
                IF rest = <<>>
                THEN [pc |-> "done", todo |-> <<>>, issue |-> 0,
                      listed |-> listed, found |-> found]
                ELSE [pc |-> "comments", todo |-> Tail(rest), issue |-> Head(rest),
                      listed |-> listed, found |-> found]]

\* checkAllRepos is called, the ticks in their order: checkRepo up to await
\* gh issue list; the constructor kept the enabled repositories only
checkAllRepos(p) ==
    /\ polls[p].pc = "idle"
    /\ \A q \in PollTicks : q < p => polls[q].pc # "idle"
    /\ polls' = [polls EXCEPT ![p].pc = IF pollRepo.enabled THEN "listing" ELSE "done"]
    /\ UNCHANGED <<processedIssues, processingIssues, runs, aiCommented>>

\* the timer of a started poller fires
PollTick(p) == checkAllRepos(p) /\ pollFrame

\* gh issue list answers with one of the lists
IssueListDoneOver(p, lists) ==
    /\ polls[p].pc = "listing"
    /\ \E issues \in lists :
            loopOn(p, issues, processedIssues \cup processingIssues, issues, {})
    /\ UNCHANGED <<processedIssues, processingIssues, runs, aiCommented>>
    /\ pollFrame

IssueListDone(p) == IssueListDoneOver(p, IssueLists)

\* gh issue list fails: checkRepo throws, checkAllRepos logs it
IssueListFails(p) ==
    /\ polls[p].pc = "listing"
    /\ polls' = [polls EXCEPT ![p].pc = "done"]
    /\ UNCHANGED <<processedIssues, processingIssues, runs, aiCommented>>
    /\ pollFrame

\* processIssue from its call to await analyzeIssue
runStarted(n) ==
    [pc |-> "analysing", body |-> issueBody(n), analysed |-> 1, labeled |-> 0,
     commented |-> 0, failure |-> ""]

\* hasAiComment answered for the issue at hand.  true: the issue goes to
\* processedIssues.  false: it goes to processingIssues and processIssue is
\* called without await.  Either way the loop runs on.
afterHasAiComment(p, hasAiResponse) ==
    LET n == polls[p].issue IN
    IF hasAiResponse
    THEN /\ processedIssues' = processedIssues \cup {n}
         /\ loopOn(p, polls[p].todo, processedIssues' \cup processingIssues,
                   polls[p].listed, polls[p].found \cup {n})
         /\ UNCHANGED <<processingIssues, runs>>
    ELSE /\ processingIssues' = processingIssues \cup {n}
         /\ runs' = [runs EXCEPT ![p, n] = runStarted(n)]
         /\ loopOn(p, polls[p].todo, processedIssues \cup processingIssues',
                   polls[p].listed, polls[p].found)
         /\ UNCHANGED processedIssues

\* gh issue view answers: some comment body includes the marker, or none
HasAiCommentDone(p) ==
    /\ polls[p].pc = "comments"
    /\ afterHasAiComment(p, polls[p].issue \in aiCommented)
    /\ UNCHANGED aiCommented
    /\ pollFrame

\* gh issue view fails: catch { return false }
HasAiCommentFails(p) ==
    /\ polls[p].pc = "comments"
    /\ afterHasAiComment(p, FALSE)
    /\ UNCHANGED aiCommented
    /\ pollFrame

\* processIssue after the label step: the comment call, if the repository
\* asks for responses
commentOrSettle(r) ==
    IF pollRepo.autoRespond
    THEN [r EXCEPT !.pc = "commenting", !.commented = @ + 1]
    ELSE [r EXCEPT !.pc = "settled"]

\* analyzeIssue resolves with the labels it suggests
PollAnalysisDone(p, n) ==
    /\ runs[p, n].pc = "analysing"
    /\ \E labels \in LabelSets :
        runs' = [runs EXCEPT ![p, n] =
                    IF pollRepo.autoLabel /\ Len(labels) > 0
                    THEN [@ EXCEPT !.pc = "creatingLabels"]
                    ELSE commentOrSettle(@)]
    /\ UNCHANGED <<processedIssues, processingIssues, polls, aiCommented>>
    /\ pollFrame

\* analyzeIssue rejects: caught and logged inside processIssue, which resolves
PollAnalysisFails(p, n) ==
    /\ runs[p, n].pc = "analysing"
    /\ runs' = [runs EXCEPT ![p, n].pc = "settled", ![p, n].failure = "analysis"]
    /\ UNCHANGED <<processedIssues, processingIssues, polls, aiCommented>>
    /\ pollFrame

\* gh label create (of the one label, nothrow) is over: gh issue edit is called
PollLabelsCreated(p, n) ==
    /\ runs[p, n].pc = "creatingLabels"
    /\ runs' = [runs EXCEPT ![p, n].pc = "labelling", ![p, n].labeled = @ + 1]
    /\ UNCHANGED <<processedIssues, processingIssues, polls, aiCommented>>
    /\ pollFrame

\* gh issue edit --add-label (nothrow) is over, with or without 'failed' in
\* its output
PollLabelsDone(p, n) ==
    /\ runs[p, n].pc = "labelling"
    /\ runs' = [runs EXCEPT ![p, n] = commentOrSettle(@)]
    /\ UNCHANGED <<processedIssues, processingIssues, polls, aiCommented>>
    /\ pollFrame

\* gh issue comment succeeds: the issue now has a comment with the marker
PollCommentDone(p, n) ==
    /\ runs[p, n].pc = "commenting"
    /\ runs' = [runs EXCEPT ![p, n].pc = "settled"]
    /\ aiCommented' = aiCommented \cup {n}
    /\ UNCHANGED <<processedIssues, processingIssues, polls>>
    /\ pollFrame

\* gh issue comment fails: caught and logged inside processIssue
PollCommentFails(p, n) ==
    /\ runs[p, n].pc = "commenting"
    /\ runs' = [runs EXCEPT ![p, n].pc = "settled", ![p, n].failure = "comment"]
    /\ UNCHANGED <<processedIssues, processingIssues, polls, aiCommented>>
    /\ pollFrame

\* .then(() => this.processedIssues.add(issueKey))
ThenCallback(p, n) ==
    /\ runs[p, n].pc = "settled"
    /\ runs' = [runs EXCEPT ![p, n].pc = "then"]
    /\ processedIssues' = processedIssues \cup {n}
    /\ UNCHANGED <<processingIssues, polls, aiCommented>>
    /\ pollFrame

\* a finally callback that leaves the issue in processingIssues
FinallyCallbackKeeps(p, n) ==
    /\ runs[p, n].pc = "then"
    /\ runs' = [runs EXCEPT ![p, n].pc = "finished"]
    /\ UNCHANGED <<processedIssues, processingIssues, polls, aiCommented>>
    /\ pollFrame

\* .finally(() => this.processingIssues.delete(issueKey))
FinallyCallback(p, n) ==
    /\ runs[p, n].pc = "then"
    /\ runs' = [runs EXCEPT ![p, n].pc = "finished"]
    /\ processingIssues' = processingIssues \ {n}
    /\ UNCHANGED <<processedIssues, polls, aiCommented>>
    /\ pollFrame

PollNext ==
    \/ \E p \in PollTicks :
        \/ PollTick(p)
        \/ IssueListDone(p)
        \/ IssueListFails(p)
        \/ HasAiCommentDone(p)
        \/ HasAiCommentFails(p)
    \/ \E p \in PollTicks, n \in PollIssues :
        \/ PollAnalysisDone(p, n)
        \/ PollAnalysisFails(p, n)
        \/ PollLabelsCreated(p, n)
        \/ PollLabelsDone(p, n)
        \/ PollCommentDone(p, n)
        \/ PollCommentFails(p, n)
        \/ ThenCallback(p, n)
        \/ FinallyCallback(p, n)

PollSpec == PollInit /\ [][PollNext]_vars

(***************************************************************************)
(* TimerSpec: the IssuePoller under start() and stop() calls.  A tick      *)
(* begins with start()'s initial check or when a set timer fires; the      *)
(* checks that were begun go on whatever is called.  The repository has    *)
(* one open issue.                                                         *)
(***************************************************************************)
\* what gh issue list answers while the poller is started and stopped
OneIssueLists == {<<1>>}

\* gh issue list answers
OneIssueListed(p) == IssueListDoneOver(p, OneIssueLists)

\* start() and stop() are called at most this many times
MaxCalls == 3

timerFrame ==
    UNCHANGED <<lpVars, repoConfigs, trig, received, cacheVars, authVars, textVars,
                registryVars>>

\* clearInterval leaves no timer
clearNothing(set, id) == set

\* clearInterval(id): the timer fires no more
clearInterval(set, id) == set \ {id}

\* start(): nothing on a running poller; else the initial check is begun and
\* the timer is set.  The timer made by the n-th call is written n.
Start ==
    /\ Len(pollerCalls) < MaxCalls
    /\ pollerCalls' = Append(pollerCalls, "start")
    /\ IF intervalId # 0
       THEN UNCHANGED <<intervalId, timers, pollVars>>
       ELSE /\ \E p \in PollTicks : checkAllRepos(p)
            /\ intervalId' = Len(pollerCalls')
            /\ timers' = timers \cup {intervalId'}
    /\ timerFrame

\* stop()
Stop ==
    /\ Len(pollerCalls) < MaxCalls
    /\ pollerCalls' = Append(pollerCalls, "stop")
    /\ IF intervalId # 0
       THEN /\ timers' = clearInterval(timers, intervalId)
            /\ intervalId' = 0
       ELSE UNCHANGED <<intervalId, timers>>
    /\ UNCHANGED pollVars
    /\ timerFrame

\* a timer that is set fires: its callback calls checkAllRepos
IntervalFires(p) ==
    /\ timers # {}
    /\ checkAllRepos(p)
    /\ UNCHANGED timerVars
    /\ timerFrame

TimerNext ==
    \/ Start
    \/ Stop
    \/ \E p \in PollTicks :
        \/ IntervalFires(p)
        \/ OneIssueListed(p)
        \/ IssueListFails(p)
        \/ HasAiCommentDone(p)
        \/ HasAiCommentFails(p)
    \/ \E p \in PollTicks, n \in PollIssues :
        \/ PollAnalysisDone(p, n)
        \/ PollAnalysisFails(p, n)
        \/ PollLabelsCreated(p, n)
        \/ PollLabelsDone(p, n)
        \/ PollCommentDone(p, n)
        \/ PollCommentFails(p, n)
        \/ ThenCallback(p, n)
        \/ FinallyCallback(p, n)

TimerSpec == PollInit /\ [][TimerNext]_vars

(***************************************************************************)
(* CoreSpec: the core under either trigger source.  The handlers and the   *)
(* poller share no state (LoopPrevention belongs to the handlers, the two  *)
(* sets to the poller), so deliveries are handled with the poller stopped  *)
(* and the poller runs with no delivery taken in.                          *)
(***************************************************************************)
CoreInit ==
    /\ processedEvents = <<>>
    /\ recentResponses = <<>>
    /\ now = 0
    /\ lastOp = NoOp
    /\ marked = {}
    /\ since = [e \in EventIds |-> {}]
    /\ respondedAt = [k \in IssueKeys |-> -1]
    /\ repoConfigs \in [{RepoKey} -> RepoConfigs]
    /\ trig = [t \in Triggers |-> Idle]
    /\ received = NoDelivery
    /\ cache = [k \in InstallationIds |-> NoToken]
    /\ cacheOp = NoCacheOp
    /\ stored = [k \in InstallationIds |-> NoToken]
    /\ authIdle
    /\ processedIssues = {}
    /\ processingIssues = {}
    /\ polls = [p \in PollTicks |-> NoPoll]
    /\ runs = [p \in PollTicks, n \in PollIssues |-> NoRun]
    /\ aiCommented \in MarkedIssues
    /\ textIdle
    /\ registryIdle
    /\ timerIdle

\* POST /poller/start has not been served
PollerStopped == \A p \in PollTicks : polls[p] = NoPoll

\* no delivery has been taken in
NoDeliveryYet == \A t \in Triggers : trig[t] = Idle

\* a step of a webhook handler, deliveries one after the other
WebhookStep ==
    /\ PollerStopped
    /\ \E t \in Triggers :
        \/ Arrives(t)
        \/ FetchCommentsDone(t)
        \/ AnalysisSettles(t)
        \/ AddLabelsDone(t)
        \/ CreateCommentDone(t)

\* a step of the poller
PollStep == NoDeliveryYet /\ PollNext

CoreNext == WebhookStep \/ PollStep

CoreSpec == CoreInit /\ [][CoreNext]_vars

(***************************************************************************)
(* LiveSpec: the core with every external call settling.  Deliveries are   *)
(* handled one after the other, or the poller runs over a repository with  *)
(* one open issue; a call that was made is answered or fails, and the      *)
(* callbacks of a settled promise are run.  Nothing makes a delivery       *)
(* arrive or a timer fire.                                                 *)
(***************************************************************************)
\* a step of a webhook handler
LiveWebhookStep(t) ==
    /\ PollerStopped
    /\ \/ Arrives(t)
       \/ FetchCommentsDone(t)
       \/ AnalysisDone(t)
       \/ AddLabelsDone(t)
       \/ CreateCommentDone(t)

\* the external call a handler run awaits settles
HandlerCallSettles(t) ==
    /\ PollerStopped
    /\ \/ FetchCommentsDone(t)
       \/ AnalysisDone(t)
       \/ AddLabelsDone(t)
       \/ CreateCommentDone(t)

\* the gh call a tick awaits settles
TickCallSettles(p) ==
    /\ NoDeliveryYet
    /\ \/ OneIssueListed(p)
       \/ IssueListFails(p)
       \/ HasAiCommentDone(p)
       \/ HasAiCommentFails(p)

\* the call a processIssue awaits settles, or the callback that is due runs
RunGoesOn(p, n) ==
    /\ NoDeliveryYet
    /\ \/ PollAnalysisDone(p, n)
       \/ PollAnalysisFails(p, n)
       \/ PollLabelsCreated(p, n)
       \/ PollLabelsDone(p, n)
       \/ PollCommentDone(p, n)
       \/ PollCommentFails(p, n)
       \/ ThenCallback(p, n)
       \/ FinallyCallback(p, n)

LiveNext ==
    \/ \E t \in Triggers : LiveWebhookStep(t)
    \/ \E p \in PollTicks : NoDeliveryYet /\ PollTick(p)
    \/ \E p \in PollTicks : TickCallSettles(p)
    \/ \E p \in PollTicks, n \in PollIssues : RunGoesOn(p, n)

\* no external call hangs and no callback is left in the queue
Settling ==
    /\ \A t \in Triggers : WF_vars(HandlerCallSettles(t))
    /\ \A p \in PollTicks : WF_vars(TickCallSettles(p))
    /\ \A p \in PollTicks, n \in PollIssues : WF_vars(RunGoesOn(p, n))

LiveSpec == CoreInit /\ [][LiveNext]_vars /\ Settling

(***************************************************************************)
(* DetectSpec: MentionDetector.detect applied to short texts               *)
(***************************************************************************)
\* texts built around the bot's name: something before it or nothing, with or
\* without "@", the name in either case or another name, with or without
\* "[bot]", and what follows
MentionTexts ==
    { before \o at \o name \o suffix \o after :
        before \in {<<>>, <<"x">>, <<"x", " ">>},
        at \in {<<>>, <<"@">>},
        name \in {botUsername, <<"A", "I">>, <<"a">>, <<"a", "l">>},
        suffix \in {<<>>, BotSuffix},
        after \in {<<>>, <<" ", "x">>, <<"x">>, <<"-", "x">>, <<"_">>, <<".">>,
                   <<"1">>} }

DetectInit ==
    /\ processedEvents = <<>>
    /\ recentResponses = <<>>
    /\ now = 0
    /\ lastOp = NoOp
    /\ marked = {}
    /\ since = [e \in EventIds |-> {}]
    /\ respondedAt = [k \in IssueKeys |-> -1]
    /\ repoConfigs = [r \in {RepoKey} |-> [enabled |-> TRUE, autoLabel |-> TRUE,
                                            autoRespond |-> TRUE]]
    /\ trig = [t \in Triggers |-> Idle]
    /\ received = NoDelivery
    /\ cache = [k \in InstallationIds |-> NoToken]
    /\ cacheOp = NoCacheOp
    /\ stored = [k \in InstallationIds |-> NoToken]
    /\ authIdle
    /\ pollIdle
    /\ input \in MentionTexts
    /\ mention = NoMention
    /\ registryIdle
    /\ timerIdle

\* detect(text) is called and answers
Detect ==
    /\ mention' = detect(input)
    /\ UNCHANGED <<input, lpVars, handlerVars, cacheVars, authVars, pollVars,
                   registryVars, timerVars>>

DetectNext == Detect

DetectSpec == DetectInit /\ [][DetectNext]_vars

(***************************************************************************)
(* RegistrySpec: the /repos routes of index.ts adding and removing         *)
(* repositories, the handler's registry, the repos array and repos.json.   *)
(* Route handlers overlap at their await of the file write; a write that   *)
(* was started is completed.                                               *)
(***************************************************************************)
\* the repos array holds at most this many entries before POST /repos stops
MaxRepos == 2

\* the owner/name pairs the routes are called with
RouteKeys == {RepoKey, OtherRepoKey}

\* the policies the bodies of POST /repos carry
RouteConfigs == { c \in RepoConfigs : c.enabled }

RegistryInit ==
    /\ processedEvents = <<>>
    /\ recentResponses = <<>>
    /\ now = 0
    /\ lastOp = NoOp
    /\ marked = {}
    /\ since = [e \in EventIds |-> {}]
    /\ respondedAt = [k \in IssueKeys |-> -1]
    /\ repoConfigs \in { registryOf(list) : list \in StoredLists }
    /\ trig = [t \in Triggers |-> Idle]
    /\ received = NoDelivery
    /\ cache = [k \in InstallationIds |-> NoToken]
    /\ cacheOp = NoCacheOp
    /\ stored = [k \in InstallationIds |-> NoToken]
    /\ authIdle
    /\ pollIdle
    /\ textIdle
    /\ registryLoaded
    /\ timerIdle

registryFrame ==
    UNCHANGED <<lpVars, trig, received, cacheVars, authVars, pollVars, textVars,
                timerVars>>

\* Map.set(key, config): the key's value is replaced, or the key is added
registrySet(map, key, config) ==
    [k \in DOMAIN map \cup {key} |-> IF k = key THEN config ELSE map[k]]

\* Map.delete(key)
registryDelete(map, key) == [k \in DOMAIN map \ {key} |-> map[k]]

\* Array.findIndex on owner and name: the first entry of the key, 0 for -1
findIndex(list, key) ==
    IF \E i \in DOMAIN list : list[i].key = key
    THEN CHOOSE i \in DOMAIN list :
            /\ list[i].key = key
            /\ \A j \in DOMAIN list : list[j].key = key => i <= j
    ELSE 0

\* Array.splice(index, 1)
spliceOne(list, index) ==
    [i \in 1 .. (Len(list) - 1) |-> IF i < index THEN list[i] ELSE list[i + 1]]

\* Bun.write('./repos.json', JSON.stringify(repos, null, 2)) is called: the
\* text is made from the array as it is now, the handler awaits the write
writing(list) == [pc |-> "writing", snapshot |-> list]

\* POST /repos with a body, up to the await of the write
PostRepos(r) ==
    /\ requests[r].pc = "idle"
    /\ Len(repos) < MaxRepos
    /\ \E key \in RouteKeys, config \in RouteConfigs :
        /\ repoConfigs' = registrySet(repoConfigs, key, config)
        /\ repos' = Append(repos, RepoEntry(key, config))
    /\ requests' = [requests EXCEPT ![r] = writing(repos')]
    /\ UNCHANGED file
    /\ registryFrame

\* DELETE /repos/:owner/:name, up to the await of the write, or to the
\* response where the array holds no entry of the name
DeleteRepos(r) ==
    /\ requests[r].pc = "idle"
    /\ \E key \in RouteKeys :
        LET index == findIndex(repos, key) IN
        /\ repoConfigs' = registryDelete(repoConfigs, key)
        /\ IF index # 0
           THEN /\ repos' = spliceOne(repos, index)
                /\ requests' = [requests EXCEPT ![r] = writing(repos')]
           ELSE UNCHANGED <<repos, requests>>
    /\ UNCHANGED file
    /\ registryFrame

\* the write of a route handler completes and the handler responds
WriteDone(r) ==
    /\ requests[r].pc = "writing"
    /\ file' = requests[r].snapshot
    /\ requests' = [requests EXCEPT ![r] = NoRequest]
    /\ UNCHANGED <<repoConfigs, repos>>
    /\ registryFrame

RegistryNext ==
    \/ \E r \in Requests :
        \/ PostRepos(r)
        \/ DeleteRepos(r)
        \/ WriteDone(r)

RegistrySpec == RegistryInit /\ [][RegistryNext]_vars

(***************************************************************************)
(* Properties of LoopPrevention                                            *)
(***************************************************************************)
\* what the specification calls a bot author
IsBotLogin(a) ==
    \/ a = botUsername
    \/ a = botUsername \o BotSuffix
    \/ (Len(a) >= 5 /\ SubSeq(a, Len(a) - 4, Len(a)) = <<"[", "b", "o", "t", "]">>)

Tracked(e) == \E i \in 1 .. Len(processedEvents) : processedEvents[i] = e

HasRecord(k) == \E i \in 1 .. Len(recentResponses) : recentResponses[i].key = k

InCooldown(k) ==
    \E i \in 1 .. Len(recentResponses) :
        /\ recentResponses[i].key = k
        /\ now < recentResponses[i].timestamp + cooldownMs

\* a check by a non-bot author with an event id that is not tracked
PlainCheck ==
    /\ lastOp.op = "check"
    /\ ~IsBotLogin(lastOp.author)
    /\ ~Tracked(lastOp.eventId)

\* C4: check applies its three tests in a fixed order and returns the first
\* that matches: bot author, then processed event id, then a response to the
\* issue inside the cooldown window, else the trigger proceeds.
C4_CheckOrder ==
    lastOp.op = "check" =>
        lastOp.reason =
            IF IsBotLogin(lastOp.author) THEN "bot_author"
            ELSE IF Tracked(lastOp.eventId) THEN "duplicate_event"
            ELSE IF InCooldown(lastOp.issueKey) THEN "recent_response"
            ELSE "none"

\* a bot author whose event id is processed and whose issue is in cooldown
C4_Witness ==
    /\ lastOp.op = "check"
    /\ IsBotLogin(lastOp.author)
    /\ Tracked(lastOp.eventId)
    /\ InCooldown(lastOp.issueKey)
    /\ lastOp.reason = "bot_author"

\* C5 as stated: once markProcessed(e) was called, every later check with e
\* reports duplicate_event, whoever the author and whatever happened since.
C5_Original ==
    (lastOp.op = "check" /\ lastOp.eventId \in marked) =>
        lastOp.reason = "duplicate_event"

\* C5 amended: once markProcessed(e) was called, a later check with e by a
\* non-bot author reports duplicate_event as long as fewer than maxTracked
\* other ids were marked since e was first marked (and clear was not called).
C5_Amended ==
    ( /\ lastOp.op = "check"
      /\ lastOp.eventId \in marked
      /\ ~IsBotLogin(lastOp.author)
      /\ Cardinality(since[lastOp.eventId]) < maxTracked ) =>
        lastOp.reason = "duplicate_event"

\* a duplicate reported although other ids were marked in between
C5_Witness ==
    /\ lastOp.op = "check"
    /\ lastOp.eventId \in marked
    /\ ~IsBotLogin(lastOp.author)
    /\ Cardinality(since[lastOp.eventId]) = maxTracked - 1
    /\ Len(processedEvents) = maxTracked
    /\ lastOp.reason = "duplicate_event"

\* C6: check reports duplicate_event for an id only if markProcessed was
\* called with that id since the last clear.
C6_NoDuplicateBeforeMark ==
    (lastOp.op = "check" /\ lastOp.reason = "duplicate_event") =>
        lastOp.eventId \in marked

\* a check of a never-marked id while other ids are tracked
C6_Witness ==
    /\ lastOp.op = "check"
    /\ lastOp.eventId \notin marked
    /\ Len(processedEvents) = maxTracked
    /\ lastOp.reason = "none"

\* C7 as stated: after recordResponse(k, _) at time T a plain check for k
\* reports recent_response at every time up to T + cooldown - 1 and not at
\* T + cooldown + 1 or later.
C7_Original ==
    PlainCheck =>
        LET T == respondedAt[lastOp.issueKey] IN
        T >= 0 =>
            /\ (now <= T + cooldownMs - 1 => lastOp.reason = "recent_response")
            /\ (now >= T + cooldownMs + 1 => lastOp.reason # "recent_response")

\* C7 amended: the same, for as long as the record of k is still in the
\* table (not evicted by capacity, not cleared).
C7_Amended ==
    PlainCheck =>
        LET T == respondedAt[lastOp.issueKey] IN
        T >= 0 =>
            /\ (HasRecord(lastOp.issueKey) /\ now <= T + cooldownMs - 1
                    => lastOp.reason = "recent_response")
            /\ (now >= T + cooldownMs + 1 => lastOp.reason # "recent_response")

\* the last millisecond of the window of a response that was overwritten
C7_Witness ==
    /\ PlainCheck
    /\ respondedAt[lastOp.issueKey] > 0
    /\ now = respondedAt[lastOp.issueKey] + cooldownMs - 1
    /\ lastOp.reason = "recent_response"

\* C9: the tracked ids never exceed maxTracked, and markProcessed of a new id
\* into a full set drops the earliest-inserted id and nothing else.
C9_EventEviction ==
    /\ [](Len(processedEvents) <= maxTracked)
    /\ [][lastOp'.op = "markProcessed" =>
            LET e == lastOp'.eventId
                A == Append(processedEvents, e)
            IN  processedEvents' =
                    IF Tracked(e) THEN processedEvents
                    ELSE IF Len(A) <= maxTracked THEN A
                    ELSE SubSeq(A, Len(A) - maxTracked + 1, Len(A))]_vars

\* maxTracked + 1 distinct ids were inserted and the first one is gone
C9_Witness ==
    /\ lastOp.op = "markProcessed"
    /\ Cardinality(marked) = maxTracked + 1
    /\ Len(processedEvents) = maxTracked
    /\ processedEvents[Len(processedEvents)] = lastOp.eventId
    /\ \E e \in marked :
        /\ ~Tracked(e)
        /\ since[e] = marked \ {e}

RecordKeys(R) == {R[i].key : i \in 1 .. Len(R)}

\* C10: recordResponse stamps the issue's record with the current time
\* without adding a second record for it, leaves every other kept record as
\* it was, keeps at most maxTracked records, and the records it removes are
\* no newer than any record it keeps.
C10_RecordResponse ==
    /\ [](Len(recentResponses) <= maxTracked)
    /\ [][lastOp'.op = "recordResponse" =>
            LET k == lastOp'.issueKey
                before == Range(recentResponses)
                after == Range(recentResponses')
                removed == {r \in before : r.key # k /\ r \notin after}
            IN  /\ Cardinality(RecordKeys(recentResponses')) = Len(recentResponses')
                /\ \A r \in after :
                    IF r.key = k THEN r.timestamp = now /\ r.eventId = lastOp'.eventId
                    ELSE r \in before
                /\ (k \in RecordKeys(recentResponses) =>
                        Len(recentResponses') = Len(recentResponses))
                /\ Cardinality(removed) =
                        IF k \notin RecordKeys(recentResponses)
                           /\ Len(recentResponses) = maxTracked
                        THEN 1 ELSE 0
                /\ \A r \in removed : \A q \in after : r.timestamp <= q.timestamp
                /\ k \in RecordKeys(recentResponses')]_vars

\* a full table in which an overwritten, newer record stands first, and an
\* older record of another issue was evicted by the last call
C10_Witness ==
    /\ lastOp.op = "recordResponse"
    /\ Len(recentResponses) = maxTracked
    /\ recentResponses[Len(recentResponses)].key = lastOp.issueKey
    /\ recentResponses[Len(recentResponses)].timestamp = now
    /\ \E k \in IssueKeys :
        /\ respondedAt[k] >= 0
        /\ ~HasRecord(k)
        /\ respondedAt[k] < recentResponses[1].timestamp

(***************************************************************************)
(* Properties of the webhook handlers                                      *)
(***************************************************************************)
\* the handler runs that got past both gates
Working(t) == trig[t].pc \notin {"idle", "rejected", "skipped", "ignored"}

\* C1 as stated: of the deliveries that carry the same event id (the same
\* event for the same issue, delivered again) at most one passes the
\* duplicate-event check and reaches the analysis call.
C1_Original ==
    \A t1, t2 \in Triggers :
        ( /\ t1 # t2
          /\ Working(t1)
          /\ Working(t2)
          /\ trig[t1].id = trig[t2].id
          /\ trig[t1].name = trig[t2].name
          /\ trig[t1].issueKey = trig[t2].issueKey ) =>
            ~(trig[t1].analysed = 1 /\ trig[t2].analysed = 1)

\* C2 as stated: two createComment calls for the same issue made by triggers
\* with distinct event ids (an issue is opened once, so at least one of them
\* is a comment mention) are at least cooldownMs apart.
C2_Original ==
    \A t1, t2 \in Triggers :
        ( /\ t1 # t2
          /\ "issue_comment.created" \in {trig[t1].name, trig[t2].name}
          /\ trig[t1].commentAt >= 0
          /\ trig[t2].commentAt >= 0
          /\ trig[t1].issueKey = trig[t2].issueKey
          /\ trig[t1].id # trig[t2].id ) =>
            \/ trig[t1].commentAt - trig[t2].commentAt >= cooldownMs
            \/ trig[t2].commentAt - trig[t1].commentAt >= cooldownMs

\* C3: a delivery authored by the bot, by the bot with the [bot] suffix or by
\* any login ending in [bot] never gets past the gates: no handler run that
\* started work, called the analysis, addLabels or createComment has such an
\* author, and the gate's answer for such an author is bot_author.
C3_BotNeverAnswered ==
    /\ \A t \in Triggers :
        ( \/ Working(t)
          \/ trig[t].analysed = 1
          \/ trig[t].labeled = 1
          \/ trig[t].commentAt >= 0 ) => ~IsBotLogin(trig[t].author)
    /\ (lastOp.op = "check" /\ IsBotLogin(lastOp.author)) => lastOp.reason = "bot_author"

\* a comment by some other app that mentions the bot, on a fresh event id and
\* an issue outside any cooldown, was ignored
C3_Witness ==
    /\ lastOp.op = "check"
    /\ lastOp.author = <<"c", "i">> \o BotSuffix
    /\ lastOp.name = "issue_comment.created"
    /\ detect(lastOp.body).isMentioned
    /\ ~Tracked(lastOp.eventId)
    /\ ~InCooldown(lastOp.issueKey)
    /\ lastOp.reason = "bot_author"
    /\ \E t \in Triggers : trig[t].pc = "ignored"
    /\ \E t \in Triggers : trig[t].pc = "done" /\ trig[t].commentOk

\* C8: in the step in which a trigger's createComment resolves, the response
\* is recorded for that trigger's issue and event id with the current time and
\* the handler run ends; recordResponse is called in no other step.
C8_RecordAfterComment ==
    /\ [][\A t \in Triggers :
            (trig'[t].commentOk /\ ~trig[t].commentOk) =>
                /\ trig[t].pc = "commenting"
                /\ trig'[t].pc = "done"
                /\ \E i \in 1 .. Len(recentResponses') :
                    /\ recentResponses'[i].key = trig[t].issueKey
                    /\ recentResponses'[i].eventId = trig[t].id
                    /\ recentResponses'[i].timestamp = now]_vars
    /\ [][(recentResponses' # recentResponses \/ lastOp'.op = "recordResponse") =>
            \E t \in Triggers :
                /\ trig'[t].commentOk /\ ~trig[t].commentOk
                /\ \A i \in 1 .. Len(recentResponses') :
                    \/ recentResponses'[i] \in Range(recentResponses)
                    \/ recentResponses'[i].key = trig[t].issueKey]_vars
    /\ [](\A t \in Triggers :
            (trig[t].pc \in {"done", "failed", "error"} /\ trig[t].commentOk) =>
                respondedAt[trig[t].issueKey] >= trig[t].commentAt)

\* both handlers posted a comment and recorded it; the later one was the
\* comment-mention handler
C8_Witness ==
    /\ lastOp.op = "recordResponse"
    /\ \E t1, t2 \in Triggers :
        /\ trig[t1].name = "issues.opened"
        /\ trig[t2].name = "issue_comment.created"
        /\ trig[t1].commentOk
        /\ trig[t2].commentOk
        /\ trig[t1].issueKey # trig[t2].issueKey
        /\ lastOp.issueKey = trig[t2].issueKey
        /\ HasRecord(trig[t1].issueKey)
        /\ HasRecord(trig[t2].issueKey)

(***************************************************************************)
(* Properties of the handlers' side effects                                *)
(***************************************************************************)
AllOn == [enabled |-> TRUE, autoLabel |-> TRUE, autoRespond |-> TRUE]

\* the analysis call of the run has returned a result
Analysed(t) ==
    /\ trig[t].analysed = 1
    /\ trig[t].pc # "analyzing"
    /\ trig[t].failure # "analysis"

\* a new-issue run under the all-on policy whose analysis returned the labels
\* ["bug"] and the response "ack"
AckScenario(t) ==
    /\ trig[t].name = "issues.opened"
    /\ trig[t].config = AllOn
    /\ Analysed(t)
    /\ trig[t].suggested = <<"bug">>
    /\ trig[t].response = "ack"

\* C11: a verified issues.opened delivery that mentions the bot, by a non-bot
\* author, under the all-on policy, with the analysis returning ["bug"] and
\* "ack", makes one addLabels call with ["bug"]; once that call is accepted,
\* one createComment call with "ack"; once that is accepted, the response is
\* recorded and the run is done.  A delivery taken in later with the event id
\* of a new-issue run is not started: no analysis, no label, no comment.
C11_EndToEnd ==
    /\ [](\A t \in Triggers :
            AckScenario(t) =>
                /\ ~IsBotLogin(trig[t].author)
                /\ trig[t].labeled = 1
                /\ trig[t].labels = <<"bug">>
                /\ (trig[t].pc = "labeling" \/ trig[t].failure = "addLabels"
                        => trig[t].commented = 0)
                /\ (trig[t].pc # "labeling" /\ trig[t].failure # "addLabels"
                        => trig[t].commented = 1 /\ trig[t].commentBody = "ack")
                /\ (trig[t].pc = "done" <=> trig[t].commentOk)
                /\ (trig[t].commentOk =>
                        respondedAt[trig[t].issueKey] >= trig[t].commentAt))
    /\ [][\A t \in Triggers :
            ( /\ trig[t].pc = "idle"
              /\ trig'[t].pc # "idle"
              /\ \E u \in Triggers :
                    /\ trig[u].name = "issues.opened"
                    /\ Working(u)
                    /\ trig[u].id = received'.id ) =>
                /\ trig'[t].pc \in {"rejected", "skipped", "ignored"}
                /\ trig'[t].analysed = 0
                /\ trig'[t].labeled = 0
                /\ trig'[t].commented = 0
                /\ processedEvents' = processedEvents
                /\ recentResponses' = recentResponses]_vars

\* the scenario ran to its end, and the same issues.opened delivery, taken in
\* again after the cooldown, was ignored as a duplicate event
C11_Witness ==
    /\ \E t, u \in Triggers :
        /\ AckScenario(t)
        /\ trig[t].pc = "done"
        /\ trig[t].labeled = 1
        /\ trig[t].commented = 1
        /\ HasRecord(trig[t].issueKey)
        /\ ~InCooldown(trig[t].issueKey)
        /\ trig[u].pc = "ignored"
        /\ received.id = trig[t].id
        /\ issueKeyOf(received.repo, received.number) = trig[t].issueKey
        /\ received.author = trig[t].author
    /\ received.name = "issues.opened"
    /\ detect(received.body).isMentioned
    /\ lastOp.op = "check"
    /\ lastOp.reason = "duplicate_event"

\* a new-issue run whose analysis returned a result
IssueRunAnalysed(t) == trig[t].name = "issues.opened" /\ Analysed(t)

RunEnded(t) == trig[t].pc \in {"done", "failed"}

MentionRunAnalysed(t) == trig[t].name = "issue_comment.created" /\ Analysed(t)

\* C14: a comment-mention run whose analysis returned calls createComment
\* (once, with the analysis' response) whatever the repository's autoRespond
\* flag is; a new-issue run calls createComment only if autoRespond is on.
C14_MentionAlwaysAnswered ==
    \A t \in Triggers :
        /\ MentionRunAnalysed(t) =>
                /\ trig[t].commented = 1
                /\ trig[t].commentBody = trig[t].response
                /\ trig[t].commentAt >= 0
        /\ (trig[t].name = "issues.opened" /\ trig[t].commented >= 1) =>
                trig[t].config.autoRespond

\* with autoRespond off, a comment mention was answered and a new issue with
\* the same analysis result was not
C14_Witness ==
    \E t, u \in Triggers :
        /\ MentionRunAnalysed(t)
        /\ ~trig[t].config.autoRespond
        /\ trig[t].pc = "done"
        /\ trig[t].commentOk
        /\ IssueRunAnalysed(u)
        /\ ~trig[u].config.autoRespond
        /\ trig[u].pc = "done"
        /\ trig[u].commented = 0
        /\ trig[u].suggested = trig[t].suggested

Received == received.name # ""

\* C17: a verified delivery for a repository that is not registered, or is
\* registered with enabled = false, is ignored in the step that takes it in:
\* LoopPrevention is not called and its tables stay as they are, the handler
\* run ends without analysis or repository-API call, and handle answers 200.
C17_ConfigurationGap ==
    [][( /\ received'.name # ""
         /\ received'.signatureOk
         /\ \/ received'.repo \notin DOMAIN repoConfigs
            \/ ~repoConfigs[received'.repo].enabled ) =>
            /\ lastOp' = NoOp
            /\ processedEvents' = processedEvents
            /\ recentResponses' = recentResponses
            /\ marked' = marked
            /\ respondedAt' = respondedAt
            /\ \E t \in Triggers :
                /\ trig[t].pc = "idle"
                /\ trig' = [trig EXCEPT ![t] = Ended("skipped", 200)]
                /\ trig'[t].analysed = 0
                /\ trig'[t].labeled = 0
                /\ trig'[t].commented = 0]_vars

\* a mention by a human on an unregistered repository was skipped while the
\* tables hold the event and the response of an answered delivery
C17_Witness ==
    /\ Received
    /\ received.signatureOk
    /\ received.repo \notin DOMAIN repoConfigs
    /\ detect(received.body).isMentioned
    /\ ~IsBotLogin(received.author)
    /\ received.installationId # 0
    /\ \E t, u \in Triggers :
        /\ trig[t].pc = "skipped"
        /\ trig[t].status = 200
        /\ trig[u].commentOk
    /\ Len(processedEvents) > 0
    /\ Len(recentResponses) > 0

\* C18: a delivery whose signature does not verify is rejected in the step
\* that takes it in: handle answers 401, no handler runs (no LoopPrevention
\* call, no analysis, no repository-API call), the loop-prevention tables stay
\* as they are, and the rejected delivery takes no further step.
C18_VerificationFailure ==
    /\ [][(received'.name # "" /\ ~received'.signatureOk) =>
            /\ lastOp' = NoOp
            /\ processedEvents' = processedEvents
            /\ recentResponses' = recentResponses
            /\ marked' = marked
            /\ respondedAt' = respondedAt
            /\ \E t \in Triggers :
                /\ trig[t].pc = "idle"
                /\ trig' = [trig EXCEPT ![t] = Ended("rejected", 401)]]_vars
    /\ [](\A t \in Triggers :
            trig[t].pc = "rejected" =>
                /\ trig[t].status = 401
                /\ trig[t].analysed = 0
                /\ trig[t].labeled = 0
                /\ trig[t].commented = 0)
    /\ [][\A t \in Triggers : trig[t].pc = "rejected" => trig'[t] = trig[t]]_vars

\* a mention by a human on the enabled repository, with a bad signature, was
\* rejected while the tables hold the event and the response of an answered
\* delivery
C18_Witness ==
    /\ Received
    /\ ~received.signatureOk
    /\ received.repo \in DOMAIN repoConfigs
    /\ repoConfigs[received.repo].enabled
    /\ detect(received.body).isMentioned
    /\ ~IsBotLogin(received.author)
    /\ \E t, u \in Triggers :
        /\ trig[t].pc = "rejected"
        /\ trig[t].status = 401
        /\ trig[u].commentOk
    /\ Len(processedEvents) > 0
    /\ Len(recentResponses) > 0

(***************************************************************************)
(* Properties of TokenCache                                                *)
(***************************************************************************)
\* the credential last stored for k is still outside the refresh margin
Fresh(k) == stored[k] # NoToken /\ now + refreshMarginMs < stored[k].expiresAt

\* C19: get(k) at time now returns the stored credential exactly when
\* now + refreshMargin < expiresAt, and leaves the cache as it is; otherwise
\* it returns absent and the entry of k is gone.  So a credential that get
\* returns is never within the margin of its expiry.  An entry disappears
\* only in a get or has of its key that misses, in a clear of its key or in
\* clearAll; the passing of time removes nothing.
C19_GetOutsideMargin ==
    /\ [][cacheOp'.op = "get" =>
            LET k == cacheOp'.key IN
            IF cache[k] # NoToken /\ now + refreshMarginMs < cache[k].expiresAt
            THEN cacheOp'.token = cache[k].token /\ cache' = cache
            ELSE cacheOp'.token = Absent /\ cache' = [cache EXCEPT ![k] = NoToken]]_vars
    /\ [](cacheOp.op = "get" =>
            /\ (cacheOp.token # Absent <=> Fresh(cacheOp.key))
            /\ (cacheOp.token # Absent => cacheOp.token = stored[cacheOp.key].token))
    /\ [][\A k \in InstallationIds :
            (cache[k] # NoToken /\ cache'[k] = NoToken) =>
                \/ /\ cacheOp'.op \in {"get", "has"}
                   /\ cacheOp'.key = k
                   /\ ~cacheOp'.present
                   /\ cache[k].expiresAt <= now + refreshMarginMs
                \/ (cacheOp'.op = "clear" /\ cacheOp'.key = k)
                \/ cacheOp'.op = "clearAll"]_vars

\* a get missed on a credential that has just reached the margin and removed
\* it, while the other id holds a credential one ms outside the margin and a
\* get of that one returned it in the step before
C19_Witness ==
    /\ cacheOp.op = "get"
    /\ cacheOp.token = Absent
    /\ now > 0
    /\ stored[cacheOp.key] # NoToken
    /\ stored[cacheOp.key].expiresAt = now + refreshMarginMs
    /\ cache[cacheOp.key] = NoToken
    /\ \E j \in InstallationIds :
        /\ j # cacheOp.key
        /\ cacheOp.prev = <<"get", j>>
        /\ cache[j] # NoToken
        /\ cache[j].expiresAt = now + refreshMarginMs + 1

\* C20 as stated: set(k, tok, now + margin + 1 ms) followed at once, at the
\* same instant, by get(k) returns absent.
C20_Original ==
    [][( /\ cacheOp.op = "set"
         /\ cacheOp.expiresAt = now + refreshMarginMs + 1
         /\ cacheOp'.op = "get"
         /\ cacheOp'.key = cacheOp.key ) => cacheOp'.token = Absent]_vars

\* C20 amended: set(k, tok, e) followed at once, at the same instant now, by
\* get(k) returns absent exactly when e <= now + margin, and tok otherwise: a
\* credential that expires at now + margin + 1 ms is returned, one that
\* expires at now + margin is not.
C20_Amended ==
    [][( /\ cacheOp.op = "set"
         /\ cacheOp'.op = "get"
         /\ cacheOp'.key = cacheOp.key ) =>
            /\ now' = now
            /\ (cacheOp'.token = Absent <=> cacheOp.expiresAt <= now + refreshMarginMs)
            /\ (cacheOp'.token # Absent => cacheOp'.token = cacheOp.token)
            /\ (cacheOp.expiresAt = now + refreshMarginMs + 1 =>
                    cacheOp'.token = cacheOp.token)]_vars

\* the get right after a set with expiry now + margin + 1 returned the token
\* just stored over an older one
C20_Witness ==
    /\ cacheOp.op = "get"
    /\ cacheOp.prev = <<"set", cacheOp.key>>
    /\ now > 0
    /\ cache[cacheOp.key] # NoToken
    /\ cache[cacheOp.key].expiresAt = now + refreshMarginMs + 1
    /\ cacheOp.token = cache[cacheOp.key].token

(***************************************************************************)
(* Properties of TokenCache.has                                            *)
(***************************************************************************)
\* C21: in every cache state and at every time, has(k) answers true exactly
\* when get(k) called in that state at that time would return a credential,
\* and it leaves the cache as that get would: an entry within the margin is
\* removed.  So has answers true exactly for a stored credential outside the
\* margin, like get.
C21_HasAgreesWithGet ==
    /\ [][cacheOp'.op = "has" =>
            LET k == cacheOp'.key
                got == cacheGet(cache, now, k)
            IN  /\ cacheOp'.present = (got.token # Absent)
                /\ cache' = got.cache]_vars
    /\ [](cacheOp.op = "has" => (cacheOp.present <=> Fresh(cacheOp.key)))

\* has answered false for a credential that has not expired yet but is within
\* the margin, and removed it
C21_Witness ==
    /\ cacheOp.op = "has"
    /\ ~cacheOp.present
    /\ now > 0
    /\ stored[cacheOp.key] # NoToken
    /\ now < stored[cacheOp.key].expiresAt
    /\ stored[cacheOp.key].expiresAt <= now + refreshMarginMs
    /\ cache[cacheOp.key] = NoToken

(***************************************************************************)
(* Properties of getInstallationToken                                      *)
(***************************************************************************)
\* the issuer has handed out a token for installation k
IssuedFor(k) == {i \in 1 .. Len(issued) : issued[i].installationId = k}

\* the token the issuer handed out last for installation k
lastIssuedFor(k) ==
    issued[CHOOSE i \in IssuedFor(k) : \A j \in IssuedFor(k) : j <= i].token

\* C22: callers that miss the cache for the same installation at the same
\* time may each ask the issuer.  Whatever the interleaving, a caller that
\* returns holds a token the issuer produced for the installation it asked
\* for, and never a token of another installation; and the cache entry of an
\* installation, while there is one, is the token of the set that ran last for
\* it (the issuer's latest answer), so after both callers finish it holds the
\* token of whichever of them cached last.
C22_BenignRace ==
    /\ \A c \in Callers :
        callers[c].pc = "returned" =>
            /\ \E i \in IssuedFor(callers[c].installationId) :
                    issued[i].token = callers[c].token
            /\ \A i \in 1 .. Len(issued) :
                    issued[i].token = callers[c].token =>
                        issued[i].installationId = callers[c].installationId
    /\ \A k \in InstallationIds :
        cache[k] # NoToken =>
            /\ IssuedFor(k) # {}
            /\ cache[k].token = lastIssuedFor(k)
            /\ cache[k] = stored[k]

\* an earlier token of the installation had come within the margin; both
\* callers then missed the cache while the other was in flight, both asked the
\* issuer, and the caller that had started first cached last
C22_Witness ==
    /\ Len(issued) = 3
    /\ \E k \in InstallationIds :
        /\ IssuedFor(k) = {1, 2, 3}
        /\ callers[1].pc = "returned" /\ callers[1].installationId = k
        /\ callers[2].pc = "returned" /\ callers[2].installationId = k
        /\ callers[2].raced
        /\ callers[2].token = issuerToken(2)
        /\ callers[1].token = issuerToken(3)
        /\ cache[k].token = issuerToken(3)

(***************************************************************************)
(* Properties of the poller                                                *)
(***************************************************************************)
\* the ticks that have started an analysis of issue n
StartedBy(n) == {p \in PollTicks : runs[p, n].pc # "none"}

\* the analyses of issue n that have not settled yet
InFlightFor(n) ==
    {p \in PollTicks : runs[p, n].pc \in {"analysing", "creatingLabels", "labelling",
                                          "commenting"}}

\* C23: the poller never starts the analysis of an issue twice: whatever the
\* interleaving of the ticks, at most one analysis of an issue is in flight,
\* and no second tick starts an analysis of an issue that a tick has started
\* one for.
C23_Original ==
    \A n \in PollIssues :
        /\ Cardinality(InFlightFor(n)) <= 1
        /\ Cardinality(StartedBy(n)) <= 1

\* C24: an issue is in processingIssues at every moment from the start of its
\* analysis until that analysis settles, and it is taken out once the analysis
\* has settled, on success and on failure alike: processingIssues never keeps
\* an issue all of whose analyses have run their finally callback.
C24_Original ==
    \A n \in PollIssues :
        /\ InFlightFor(n) # {} => n \in processingIssues
        /\ n \in processingIssues =>
                \E p \in PollTicks : runs[p, n].pc \notin {"none", "finished"}

\* a webhook handler run that goes on to analysis (at once for a new issue,
\* after the comments are fetched for a comment) does so in the step in which
\* check let the delivery pass and detect found a mention in its text
WebhookGated ==
    \A t \in Triggers :
        (trig[t].pc = "idle" /\ trig'[t].pc \in {"analyzing", "fetching"}) =>
            /\ lastOp'.op = "check"
            /\ lastOp'.reason = "none"
            /\ detect(received'.body).isMentioned

\* an analysis started by the poller is of an issue whose body mentions the bot
PollGated ==
    \A p \in PollTicks, n \in PollIssues :
        runs[p, n].pc # "none" => detect(runs[p, n].body).isMentioned

\* C25: every trigger that reaches the analysis call, from a webhook delivery
\* or from a poll tick, has passed the loop-prevention check and then the
\* mention check: analysis is never called for a text that does not mention
\* the bot.
C25_Original == [][WebhookGated]_vars /\ []PollGated

(***************************************************************************)
(* Properties of MentionDetector.detect                                    *)
(***************************************************************************)
\* the characters of a GitHub account name: letters, digits and the hyphen
isLoginChar(c) == foldCase(c) \in Range(LowerChars) \cup Digits \cup {"-"}

\* no account name runs on at position p
loginEnds(txt, p) == p > Len(txt) \/ ~isLoginChar(txt[p])

\* "@" and the bot's name, in any case, stand at position p, and the account
\* name ends there or after "[bot]"
AddressesBot(txt, p) ==
    LET e == p + 1 + Len(botUsername) IN
    /\ matchesLiteral(txt, p, <<"@">> \o botUsername)
    /\ \/ loginEnds(txt, e)
       \/ matchesLiteral(txt, e, BotSuffix) /\ loginEnds(txt, e + Len(BotSuffix))

\* C26: detect reports a mention only when the text holds "@" followed by the
\* bot's name, in any case, optionally followed by "[bot]", and the account
\* name ends there: a longer account name that begins with the bot's name is
\* not reported as a mention.
C26_Original ==
    mention.isMentioned => \E p \in 1 .. Len(input) : AddressesBot(input, p)

(***************************************************************************)
(* Properties of the core as a whole                                       *)
(***************************************************************************)
\* how often a run has called the analysis engine, addLabels (gh issue edit
\* in the poller) and createComment (gh issue comment)
Calls(r) == <<r.analysed, r.labeled, r.commented>>

MarkedBefore(n) ==
    /\ n \in aiCommented
    /\ \A p \in PollTicks :
        ~(runs[p, n].commented > 0 /\ runs[p, n].failure = ""
            /\ runs[p, n].pc \in {"settled", "then", "finished"})

\* C28: an open issue one of whose comments contains the AI-response marker
\* is never analysed, labelled or commented by the poller.
C28_Original ==
    \A n \in PollIssues : MarkedBefore(n) => \A p \in PollTicks : runs[p, n] = NoRun

\* tick p has just gone on to ask for the comments of an issue
AsksComments(p) == polls'[p].pc = "comments" /\ polls'[p] # polls[p]

\* C28 amended: an issue for which hasAiComment answers true (gh issue view
\* succeeded and a comment body includes the marker) is added to
\* processedIssues by that tick and stays there, and that tick starts no
\* analysis, label or comment for it; and every tick whose loop comes to an
\* issue that is in processedIssues passes over it without asking for its
\* comments.  (When gh issue view fails, hasAiComment answers false and the
\* issue is analysed, marker or not.)
C28_Amended ==
    /\ [](\A p \in PollTicks : \A n \in polls[p].found :
            n \in processedIssues /\ runs[p, n] = NoRun)
    /\ [][\A p \in PollTicks :
            AsksComments(p) => polls'[p].issue \notin processedIssues']_vars

\* the first tick found the marker on issue 2 and analysed issue 1; the second
\* tick was answered with issues 2 and 1 and passed over both; issue 2 was
\* never analysed
C28_Witness ==
    /\ polls[1].pc = "done"
    /\ polls[1].found = {2}
    /\ runs[1, 1].pc = "finished"
    /\ polls[2].pc = "done"
    /\ polls[2].listed = <<2, 1>>
    /\ polls[2].found = {}
    /\ runs[2, 1] = NoRun
    /\ \A p \in PollTicks : runs[p, 2] = NoRun
    /\ processedIssues = {1, 2}

\* C29: when the analysis call of a trigger fails it is retried, and a fallback
\* response is produced: a handler run in which analyzeIssue was rejected does
\* not end before the engine was called again and a comment was posted.
C29_Original ==
    \A t \in Triggers :
        (trig[t].pc \in TerminalPcs /\ trig[t].failure = "analysis") =>
            /\ trig[t].analysed > 1
            /\ trig[t].commented > 0

(***************************************************************************)
(* Properties of markProcessed called again                                *)
(***************************************************************************)
\* the last step was markProcessed of the id tracked longest, in a full set
\* of more than one id: a second call for it, since a first call puts the id
\* in the newest position
RemarkedOldest ==
    /\ lastOp.op = "markProcessed"
    /\ Len(processedEvents) = maxTracked
    /\ maxTracked > 1
    /\ processedEvents[1] = lastOp.eventId

\* C30: markProcessed is idempotent and insertion-ordered.  A call for an id
\* that is tracked leaves the tracked ids and their order exactly as they
\* were: it does not move the id to the newest position.  So the id is still
\* evicted by the order of its first insertion: when the oldest id of a full
\* set was just marked again and a new id is marked next, the id marked again
\* is the one evicted.
C30_MarkIdempotent ==
    /\ [][(lastOp'.op = "markProcessed" /\ Tracked(lastOp'.eventId)) =>
            processedEvents' = processedEvents]_vars
    /\ [][(RemarkedOldest /\ lastOp'.op = "markProcessed"
            /\ ~Tracked(lastOp'.eventId)) =>
            /\ lastOp.eventId \notin Range(processedEvents')
            /\ processedEvents' =
                    Append(Tail(processedEvents), lastOp'.eventId)]_vars

\* the oldest id of a full set was marked again, after other ids had been
\* marked since its first marking, and it is still the oldest
C30_Witness ==
    /\ RemarkedOldest
    /\ since[lastOp.eventId] # {}
    /\ Cardinality(marked) = maxTracked

(***************************************************************************)
(* Frame of check and of an ignored trigger                                *)
(***************************************************************************)
\* C31: check changes neither the tracked event ids nor the response
\* records.  A handler run in which check was called and markProcessed was
\* not (the trigger ends as ignored, for a loop-prevention reason or for want
\* of a mention, or a comment mention goes on to fetch the conversation)
\* leaves both tables exactly as they were; an event whose text does not
\* mention the bot is not marked processed.
C31_IgnoredLeavesTables ==
    [][\A t \in Triggers :
        (trig[t].pc = "idle" /\ trig'[t].pc \in {"ignored", "fetching"}) =>
            /\ lastOp'.op = "check"
            /\ processedEvents' = processedEvents
            /\ recentResponses' = recentResponses
            /\ marked' = marked
            /\ (trig'[t].pc = "ignored" =>
                    \/ lastOp'.reason # "none"
                    \/ ~detect(received'.body).isMentioned)]_vars

\* a new issue by a human that does not mention the bot was ignored: check
\* had let it pass, its id is not tracked, and the tracked ids are those of an
\* earlier delivery whose analysis failed
C31_Witness ==
    /\ Received
    /\ received.name = "issues.opened"
    /\ lastOp.op = "check"
    /\ lastOp.reason = "none"
    /\ ~detect(received.body).isMentioned
    /\ ~Tracked(received.id)
    /\ \E t, u \in Triggers :
        /\ trig[t].pc = "ignored"
        /\ trig[u].failure = "analysis"
        /\ processedEvents = <<trig[u].id>>

(***************************************************************************)
(* The answer of handle                                                    *)
(***************************************************************************)
\* C32: handle answers 401 only when the signature verification fails: a
\* handler run that has ended with 401 is one that was rejected at the
\* signature, and every other run that has ended, whatever failed in it,
\* was answered 200.
C32_Original ==
    \A t \in Triggers :
        /\ trig[t].status = 401 => trig[t].pc = "rejected"
        /\ trig[t].pc \in TerminalPcs \ {"rejected"} => trig[t].status = 200

(***************************************************************************)
(* The poller after an analysis has settled                                *)
(***************************************************************************)
\* an analysis of issue n has settled, with success or with failure
SettledFor(n) ==
    \E q \in PollTicks : runs[q, n].pc \in {"settled", "then", "finished"}

\* C33: once the analysis of an issue has settled, with success or with
\* failure, the issue is in processedIssues (as soon as the then callback has
\* run) and no tick starts an analysis of it again.
C33_Original ==
    /\ [](\A p \in PollTicks, n \in PollIssues :
            runs[p, n].pc \in {"then", "finished"} => n \in processedIssues)
    /\ [][\A p \in PollTicks, n \in PollIssues :
            (runs[p, n].pc = "none" /\ runs'[p, n].pc # "none") =>
                ~SettledFor(n)]_vars

(***************************************************************************)
(* The registry and the persisted list                                     *)
(***************************************************************************)
\* the owner/name pairs a list holds
keysOf(list) == { list[i].key : i \in DOMAIN list }

\* no route handler is between its change and the end of its write
RoutesAtRest == \A r \in Requests : requests[r].pc = "idle"

\* C34: whenever no /repos request is in progress, the repositories of the
\* handler's registry are those of the persisted list, so that a restart
\* reloads exactly the registry.
C34_Original ==
    RoutesAtRest =>
        /\ DOMAIN repoConfigs = keysOf(file)
        /\ registryOf(file) = repoConfigs

(***************************************************************************)
(* The poller's timer under start() and stop()                             *)
(***************************************************************************)
\* this step is the call of start() or stop() named
Called(op) ==
    /\ Len(pollerCalls') = Len(pollerCalls) + 1
    /\ pollerCalls'[Len(pollerCalls')] = op

\* this step begins a poll tick
TickBegins == \E p \in PollTicks : polls[p].pc = "idle" /\ polls'[p].pc # "idle"

\* C35: at most one interval timer is set, the one intervalId names; start()
\* on a running poller sets no timer and begins no check; a tick begins only
\* while the last call made was start(), never after stop().
C35_OneTimer ==
    /\ [](/\ Cardinality(timers) <= 1
          /\ timers = IF intervalId = 0 THEN {} ELSE {intervalId})
    /\ [][/\ (Called("start") /\ intervalId # 0) =>
                (timers' = timers /\ intervalId' = intervalId /\ ~TickBegins)
          /\ TickBegins =>
                (pollerCalls' # <<>> /\ pollerCalls'[Len(pollerCalls')] = "start")]_vars

\* start(), start() again, stop(): one check was begun, no timer is left
C35_Witness ==
    /\ pollerCalls = <<"start", "start", "stop">>
    /\ timers = {} /\ intervalId = 0
    /\ polls[1].pc # "idle" /\ polls[2].pc = "idle"

(***************************************************************************)
(* Labels and the comment-mention handler                                  *)
(***************************************************************************)
\* C36: a handler run of issue_comment.created never calls addLabels, under
\* any autoLabel flag and any labels of the analysis; every run that called
\* addLabels is a run of issues.opened.
C36_MentionNeverLabels ==
    \A t \in Triggers :
        /\ trig[t].name = "issue_comment.created" =>
                (trig[t].labeled = 0 /\ trig[t].pc # "labeling" /\ trig[t].labels = <<>>)
        /\ trig[t].labeled > 0 => trig[t].name = "issues.opened"

\* a comment-mention run under autoLabel whose analysis suggested labels has
\* posted its comment and ended
C36_Witness ==
    \E t \in Triggers :
        /\ trig[t].name = "issue_comment.created"
        /\ trig[t].pc = "done"
        /\ trig[t].config.autoLabel
        /\ trig[t].suggested # <<>>
        /\ trig[t].commented = 1
        /\ trig[t].labeled = 0

(***************************************************************************)
(* recordResponse and its own record                                       *)
(***************************************************************************)
\* C37: the record recordResponse(k, e) writes is in the table when the call
\* returns, stamped with the current time, whatever it evicted and whatever
\* timestamps the records share; a check for k by a non-bot author with an
\* event id that is not tracked then reports recent_response.
C37_OwnRecordKept ==
    [][lastOp'.op = "recordResponse" =>
        LET k == lastOp'.issueKey IN
        /\ \E i \in 1 .. Len(recentResponses') :
            /\ recentResponses'[i].key = k
            /\ recentResponses'[i].timestamp = now'
            /\ recentResponses'[i].eventId = lastOp'.eventId
        /\ \A author \in {a \in CheckAuthors : ~isBotUser(a)} :
            \A e \in EventIds \ Range(processedEvents') :
                check(processedEvents', recentResponses', now', author, k, e)
                    = "recent_response"]_vars

\* the table is full of records of one and the same timestamp, the last
\* call's record among them, and that call evicted a record of this
\* timestamp too
C37_Witness ==
    /\ lastOp.op = "recordResponse"
    /\ Len(recentResponses) = maxTracked
    /\ \A i \in 1 .. Len(recentResponses) : recentResponses[i].timestamp = now
    /\ HasRecord(lastOp.issueKey)
    /\ \E k \in IssueKeys : respondedAt[k] = now /\ ~HasRecord(k)

(***************************************************************************)
(* TokenCache calls and the entries of other ids                           *)
(***************************************************************************)
\* C38: a get, set, has or clear for installation id k leaves the entry of
\* every other id as it was, present or not; a step that is not clearAll
\* changes the entry of no id but the one it was called for, so only
\* clearAll removes the entries of several ids.
C38_OtherEntriesKept ==
    [][cacheOp'.op # "clearAll" =>
        \A j \in InstallationIds \ {cacheOp'.key} : cache'[j] = cache[j]]_vars

\* a get found the id's entry inside the refresh margin and removed it; the
\* entry of another id, inside the margin as well, is still there
C38_Witness ==
    /\ cacheOp.op = "get"
    /\ ~cacheOp.present
    /\ cache[cacheOp.key] = NoToken
    /\ stored[cacheOp.key] # NoToken
    /\ \E j \in InstallationIds \ {cacheOp.key} :
        /\ cache[j] # NoToken
        /\ expiringSoon(cache[j], now)

(***************************************************************************)
(* Termination while external calls settle                                 *)
(***************************************************************************)
\* handle() has returned a response for this delivery
Answered(t) == trig[t].pc \in TerminalPcs /\ trig[t].status \in {200, 401}

\* C39: while every external call settles, every delivery taken in reaches
\* a terminal state with handle's response returned, and every issue in
\* processingIssues is removed from it.
C39_Terminates ==
    /\ \A t \in Triggers : (trig[t].pc # "idle") ~> Answered(t)
    /\ \A n \in PollIssues : (n \in processingIssues) ~> (n \notin processingIssues)

\* one delivery was answered 200 after its comment was posted and recorded,
\* the other 401 after its comment fetch failed
C39_Witness ==
    \E t, u \in Triggers :
        /\ trig[t].pc = "done" /\ trig[t].commentOk /\ Answered(t)
        /\ HasRecord(trig[t].issueKey)
        /\ trig[u].pc = "error" /\ trig[u].failure = "fetch" /\ Answered(u)

====
